---- MODULE Spec2Model ----
(***************************************************************************)
(* A model of the carvers/verifiers of bangunpack.py.                      *)
(*                                                                         *)
(* One parser invocation is a sequential process: pc is its position in    *)
(* the function body, pos the position of the file object checkfile,       *)
(* unpackedsize the function's running byte count.  The content of the     *)
(* input file is chosen when it is read: every read returns as many bytes  *)
(* as the file holds at the cursor (at most the number asked for) and a    *)
(* value drawn from a small set of values that many bytes can hold.  The  *)
(* parsers that read a part of the file again hand it to a decoder or a    *)
(* program, whose verdict is drawn as well.  The arguments besides the     *)
(* offset (the name of the file, unpackdir) are drawn where the code       *)
(* first uses them.                                                        *)
(***************************************************************************)
EXTENDS Integers, Sequences, FiniteSets, TLC

VARIABLES
    parser,        \* the unpacker that was called
    filesize,      \* os.stat(filename).st_size
    offset,        \* the offset argument
    pc,            \* position in the unpacker's body
    pos,           \* checkfile.tell()
    unpackedsize,  \* the local variable unpackedsize
    loc,           \* the other local variables of the unpacker
    result,        \* what the call produced: a 5-tuple, or an exception
    outdir,        \* names of the files that exist under unpackdir
    tmpdir,        \* names of the entries that exist under temporarydirectory
    cwd,           \* the process's current working directory
    rewound        \* a read or seek of checkfile went behind the cursor

vars == <<parser, filesize, offset, pc, pos, unpackedsize, loc, result,
          outdir, tmpdir, cwd, rewound>>

-----------------------------------------------------------------------------
(* Bounds of the model. *)

\* the largest offset argument
MaxOffset == 2
\* bytes of a RIFF file beyond its 12 byte header
MaxRiffExtra == 18
\* the largest chunk size a RIFF chunk header declares
MaxChunk == 3
\* bytes of a PNG file beyond the 57 bytes of the smallest one
MaxPngExtra == 14
\* the largest size a PNG chunk declares
MaxPngChunk == 1
\* bytes of a gzip file beyond the 4 bytes up to its flags
MaxGzExtra == 20
\* the longest original name, comment and extra field of a gzip header
MaxGzName == 3
\* the size of the read buffer of the decoding loops, 10000000 in the code
GzReadSize == 4
\* the most iterations of a decoding loop
MaxGzIter == 3
\* bytes of a BMP file beyond the 26 bytes of its headers
MaxBmpExtra == 4
\* bytes of an LZMA or XZ file beyond the 13 bytes of the LZMA header
MaxLzExtra == 6
\* the size of the first block given to the LZMA decompressor, 900000 in the code
LzFirstSize == 15
\* the size of the later blocks, 10000000 in the code
LzReadSize == 2
\* bytes of a timezone file beyond the 44 bytes of its first header
MaxTzExtra == 62
\* the largest count of a timezone header
MaxTzCount == 1
\* unpackTar: the length of the data, the members of an archive, the bytes
\* of a member, the blocks of padding, and the scaled block of 512 bytes
MaxTarSpan == 13
MaxTarMembers == 2
MaxTarData == 3
MaxTarPad == 2
TarBlock == 3
\* bytes of an ar file beyond the 8 bytes of its global header
MaxArSpan == 3
\* bytes of a squashfs file beyond the 30 bytes up to its version
MaxSqExtra == 42

-----------------------------------------------------------------------------
(* Helpers. *)

Min(a, b) == IF a < b THEN a ELSE b
Max(a, b) == IF a > b THEN a ELSE b

\* file.read(n) at position p: the number of bytes returned
ReadLen(p, n) == Min(n, Max(0, filesize - p))

RiffParsers == {"WebP", "WAV", "ANI"}

\* the returned 5-tuple (status, size, files and labels, labels, error)
Ret(ok, size, files, labels, err) ==
    [ret |-> "tuple", ok |-> ok, size |-> size, files |-> files,
     labels |-> labels, error |-> err, exc |-> ""]

\* an exception that leaves the unpacker
Raised(e) ==
    [ret |-> "raised", ok |-> FALSE, size |-> 0, files |-> <<>>,
     labels |-> {}, error |-> {}, exc |-> e]

NoResult ==
    [ret |-> "none", ok |-> FALSE, size |-> 0, files |-> <<>>,
     labels |-> {}, error |-> {}, exc |-> ""]

\* the error dict; the empty dict is the empty set
Err(off, reason) == {[offset |-> off, reason |-> reason, fatal |-> FALSE]}

\* the spans filesize - offset tried for a format whose smallest file has
\* minsize bytes: none, one short of the smallest, and up to extra more
Spans(minsize, extra) == {0} \cup ((minsize - 1) .. (minsize + extra))

-----------------------------------------------------------------------------
(* unpackRIFF, and its callers unpackWebP, unpackWAV and unpackANI. *)

RiffSpans == Spans(12, MaxRiffExtra)

RiffLoc ==
    [rifflength |-> 0, inner |-> NoResult,
     nchunks |-> 0, chunksum |-> 0, shortsize |-> FALSE, examined |-> FALSE,
     chunksize |-> -1, curpos |-> 0, paddingpos |-> -1, paddingbyte |-> "none"]

\* applicationname.lower()
RiffName(p) ==
    CASE p = "WebP" -> "webp" [] p = "WAV" -> "wav" [] p = "ANI" -> "ani"

\* the labels the caller adds
RiffLabels(p) ==
    CASE p = "WebP" -> {"webp", "graphics"}
      [] p = "WAV" -> {"wav", "audio"}
      [] p = "ANI" -> {"ani", "graphics"}

\* unpackRIFF returns to its caller
RiffReturn(r) ==
    /\ loc' = [loc EXCEPT !.inner = r]
    /\ pc' = "riff_caller"
    /\ UNCHANGED result

\* the length check of the RIFF header
RiffLengthOutsideFile(rifflength, fsize) == rifflength + 8 > fsize

\* the values a little endian size field of which n bytes were read can hold
ChunkSizes(n) == IF n = 0 THEN {0} ELSE 0 .. MaxChunk

\* the last chunk the loop looked at: its declared size (-1 when the
\* iteration failed before the size was accepted), the position after the
\* size field, where a padding byte was read (-1: nowhere) and what it held
RiffChunk(l, size, curpos, paddingpos, paddingbyte) ==
    [l EXCEPT !.chunksize = size, !.curpos = curpos,
              !.paddingpos = paddingpos, !.paddingbyte = paddingbyte]

\* unpackRIFF returns to its caller from inside the chunk loop
RiffChunkReturn(r, size, curpos, paddingpos, paddingbyte) ==
    /\ loc' = [RiffChunk(loc, size, curpos, paddingpos, paddingbyte) EXCEPT !.inner = r]
    /\ pc' = "riff_caller"
    /\ UNCHANGED result

\* a chunk loop that pads no chunk
HasPaddingNever(size) == FALSE

\* an odd chunk size has a padding byte
HasPadding(size) == size % 2 # 0

\* a padding check that seeks to the byte before the data of the chunk
PaddingSeekBack(curpos, chunklength) == curpos - 1

\* where the padding byte of a chunk is read
PaddingSeek(curpos, chunklength) == curpos + chunklength - 1

\* a final sanity check that lets every size pass
RiffSizeNeverMismatch(size, rifflength) == FALSE

\* the final sanity check of the unpacked size
RiffSizeMismatch(size, rifflength) == size # rifflength + 8

\* lines 110-144: size check, magic, length, application header
unpackRIFF_header ==
    /\ pc = "start" /\ parser \in RiffParsers
    /\ UNCHANGED <<parser, filesize, offset, outdir, tmpdir, cwd, rewound>>
    /\ IF filesize - offset < 12
       THEN /\ RiffReturn(Ret(FALSE, 0, <<>>, {}, Err(offset, "less than 12 bytes")))
            /\ UNCHANGED <<pos, unpackedsize>>
       ELSE \E magic \in BOOLEAN, rifflength \in 0 .. (filesize + 1), app \in BOOLEAN :
              IF ~magic
              THEN /\ RiffReturn(Ret(FALSE, 0, <<>>, {}, Err(offset, "no valid RIFF header")))
                   /\ pos' = offset + 4
                   /\ unpackedsize' = 0
              ELSE IF RiffLengthOutsideFile(rifflength, filesize)
              THEN /\ loc' = [loc EXCEPT !.rifflength = rifflength,
                                !.inner = Ret(FALSE, 0, <<>>, {}, Err(offset + 4, "wrong length"))]
                   /\ pc' = "riff_caller"
                   /\ UNCHANGED result
                   /\ pos' = offset + 8
                   /\ unpackedsize' = 4
              ELSE IF ~app
              THEN /\ loc' = [loc EXCEPT !.rifflength = rifflength, !.examined = TRUE,
                                !.inner = Ret(FALSE, 0, <<>>, {}, Err(offset + 8, "no valid header"))]
                   /\ pc' = "riff_caller"
                   /\ UNCHANGED result
                   /\ pos' = offset + 12
                   /\ unpackedsize' = 8
              ELSE /\ loc' = [loc EXCEPT !.rifflength = rifflength, !.examined = TRUE]
                   /\ pc' = "riff_chunks"
                   /\ UNCHANGED result
                   /\ pos' = offset + 12
                   /\ unpackedsize' = 12

\* lines 147-183: one iteration of the chunk loop
unpackRIFF_chunk ==
    /\ pc = "riff_chunks"
    /\ pos # offset + loc.rifflength + 8
    /\ UNCHANGED <<parser, filesize, offset, outdir, tmpdir, cwd>>
    /\ IF ReadLen(pos, 4) # 4
       THEN /\ RiffChunkReturn(Ret(FALSE, 0, <<>>, {}, Err(offset + unpackedsize, "no valid chunk header")),
                               -1, pos + ReadLen(pos, 4), -1, "none")
            /\ pos' = pos + ReadLen(pos, 4)
            /\ UNCHANGED <<unpackedsize, rewound>>
       ELSE \E valid \in BOOLEAN, size \in ChunkSizes(ReadLen(pos + 4, 4)), pad \in BOOLEAN :
              LET curpos == pos + 4 + ReadLen(pos + 4, 4)
                  haspadding == HasPadding(size)
                  chunklength == IF haspadding THEN size + 1 ELSE size
              IN  IF ~valid
                  THEN /\ RiffChunkReturn(Ret(FALSE, 0, <<>>, {}, Err(offset + unpackedsize, "no valid chunk FourCC")),
                                          -1, pos + 4, -1, "none")
                       /\ pos' = pos + 4
                       /\ UNCHANGED <<unpackedsize, rewound>>
                  ELSE IF chunklength > filesize - curpos
                  THEN /\ RiffChunkReturn(Ret(FALSE, 0, <<>>, {}, Err(offset + unpackedsize + 4, "wrong chunk length")),
                                          -1, curpos, -1, "none")
                       /\ pos' = curpos
                       /\ unpackedsize' = unpackedsize + 4
                       /\ UNCHANGED rewound
                  ELSE IF haspadding /\ ~pad
                  THEN /\ RiffChunkReturn(Ret(FALSE, 0, <<>>, {}, Err(offset + unpackedsize + 8, "wrong value for padding byte length")),
                                          size, curpos, PaddingSeek(curpos, chunklength), "nonzero")
                       /\ pos' = PaddingSeek(curpos, chunklength) + 1
                       /\ unpackedsize' = unpackedsize + 8
                       /\ rewound' = (rewound \/ PaddingSeek(curpos, chunklength) < curpos)
                  ELSE /\ loc' = [RiffChunk(loc, size, curpos,
                                            IF haspadding THEN PaddingSeek(curpos, chunklength) ELSE -1,
                                            IF haspadding THEN "zero" ELSE "none")
                                    EXCEPT !.nchunks = @ + 1,
                                           !.chunksum = @ + 8 + chunklength,
                                           !.shortsize = @ \/ ReadLen(pos + 4, 4) # 4]
                       /\ pc' = "riff_chunks"
                       /\ UNCHANGED result
                       /\ pos' = (IF haspadding THEN PaddingSeek(curpos, chunklength) + 1
                                  ELSE curpos + chunklength)
                       /\ unpackedsize' = unpackedsize + 8 + chunklength
                       /\ rewound' = (rewound \/ (haspadding /\ PaddingSeek(curpos, chunklength) < curpos))

\* a test for the whole file with the test of the offset inverted
RiffCoversFileNot(off, size, fsize) == off # 0 /\ size = fsize

\* the RIFF data is the whole file, and is not carved
RiffCoversFile(off, size, fsize) == off = 0 /\ size = fsize

\* lines 185-205: the sanity check of the size, the label, the carving
unpackRIFF_finish ==
    /\ pc = "riff_chunks"
    /\ pos = offset + loc.rifflength + 8
    /\ UNCHANGED <<parser, filesize, offset, pos, unpackedsize, tmpdir, cwd, rewound>>
    /\ IF RiffSizeMismatch(unpackedsize, loc.rifflength)
       THEN /\ RiffReturn(Ret(FALSE, 0, <<>>, {}, Err(offset, "unpacked size does not match declared size")))
            /\ UNCHANGED outdir
       ELSE IF RiffCoversFile(offset, unpackedsize, filesize)
       THEN /\ RiffReturn(Ret(TRUE, unpackedsize, <<>>, {"riff"}, {}))
            /\ UNCHANGED outdir
       ELSE /\ RiffReturn(Ret(TRUE, unpackedsize, <<"unpacked-" \o RiffName(parser)>>, {}, {}))
            /\ outdir' = outdir \cup {"unpacked-" \o RiffName(parser)}

\* a caller that never labels the file
RiffWholeFileNever(off, size, fsize) == FALSE

\* the condition under which the caller labels the whole file
RiffWholeFile(off, size, fsize) == off = 0 /\ size = fsize

\* unpackWebP, unpackWAV, unpackANI after unpackRIFF returned
unpackRIFF_caller ==
    /\ pc = "riff_caller"
    /\ UNCHANGED <<parser, filesize, offset, pos, unpackedsize, loc, outdir, tmpdir, cwd, rewound>>
    /\ pc' = "done"
    /\ LET r == loc.inner
           labels == IF r.ok /\ RiffWholeFile(offset, r.size, filesize)
                     THEN r.labels \cup RiffLabels(parser) ELSE r.labels
           files == IF r.ok
                    THEN [i \in 1 .. Len(r.files) |->
                            <<r.files[i], RiffLabels(parser) \cup {"unpacked"}>>]
                    ELSE <<>>
       IN  result' = Ret(r.ok, r.size, files, labels, r.error)

NextRIFF ==
    \/ unpackRIFF_header
    \/ unpackRIFF_chunk
    \/ unpackRIFF_finish
    \/ unpackRIFF_caller

-----------------------------------------------------------------------------
(* unpackPNG. *)

PngSpans == Spans(57, MaxPngExtra)

PngLoc == [idatseen |-> FALSE, endoffilereached |-> FALSE, chunknames |-> {},
           crcbytes |-> 4, iendpos |-> 0, chunkend |-> -1]

\* the chunk types the unpacker tells apart; "other" is any other four bytes
PngChunkTypes == {"IDAT", "IEND", "acTL", "fcTL", "fdAT", "other"}

\* binascii.crc32 of a chunk type and size bytes of data: the smallest number
\* of bytes that hold the CRC-32 of some such chunk.  With the type fixed,
\* the CRC-32 is a bijection of any four data bytes, and for less data the
\* least values are (IEND) a4: 3 bytes, ed 02: 2 bytes, fc b9 93: 1 byte.
MinCrcBytes(chunktype, chunksize) ==
    IF chunktype = "other" THEN 0 ELSE 4 - Min(chunksize, 4)

\* crccomputed != crcstored, where crcstored is int.from_bytes of the n bytes
\* that could be read and same says whether these bytes are the CRC's value
CrcDiffers(chunktype, chunksize, n, same) ==
    ~(same /\ (n = 4 \/ n >= MinCrcBytes(chunktype, chunksize)))

\* the check of the declared chunk size against the file
PngChunkOutsideFile(chunksize, off, fsize) == off + chunksize > fsize

PngFail(size, off, reason) ==
    /\ result' = Ret(FALSE, size, <<>>, {}, Err(off, reason))
    /\ pc' = "done"

\* lines 229-265: size check, the magic is skipped, the IHDR chunk
unpackPNG_header ==
    /\ pc = "start" /\ parser = "PNG"
    /\ UNCHANGED <<parser, filesize, offset, outdir, tmpdir, cwd, rewound>>
    /\ IF filesize - offset < 57
       THEN /\ PngFail(0, offset, "File too small (less than 57 bytes")
            /\ UNCHANGED <<pos, unpackedsize, loc>>
       ELSE \E length \in BOOLEAN, ihdr \in BOOLEAN, crc \in BOOLEAN :
              /\ pos' = offset + 33
              /\ IF ~length
                 THEN /\ PngFail(0, offset + 8, "no valid chunk length")
                      /\ unpackedsize' = 8
                      /\ UNCHANGED loc
                 ELSE IF ~ihdr
                 THEN /\ PngFail(0, offset + 8, "no IHDR header")
                      /\ unpackedsize' = 8
                      /\ UNCHANGED loc
                 ELSE IF ~crc
                 THEN /\ PngFail(0, offset + 8, "Wrong CRC")
                      /\ unpackedsize' = 8
                      /\ UNCHANGED loc
                 ELSE /\ pc' = "png_chunks"
                      /\ unpackedsize' = 33
                      /\ loc' = [loc EXCEPT !.chunkend = offset + 33]
                      /\ UNCHANGED result

\* lines 271-314: one iteration of the chunk loop
unpackPNG_chunk ==
    /\ pc = "png_chunks"
    /\ UNCHANGED <<parser, filesize, offset, outdir, tmpdir, cwd, rewound>>
    /\ IF ReadLen(pos, 4) # 4
       THEN /\ PngFail(0, offset + unpackedsize, "Could not read chunk size")
            /\ pos' = pos + ReadLen(pos, 4)
            /\ UNCHANGED <<unpackedsize, loc>>
       ELSE \E chunksize \in 0 .. MaxPngChunk, chunktype \in PngChunkTypes, same \in BOOLEAN :
              LET got == ReadLen(pos + 4, 4 + chunksize)
                  crcgot == ReadLen(pos + 4 + got, 4)
              IN  IF PngChunkOutsideFile(chunksize, offset, filesize)
                  THEN /\ PngFail(0, offset + unpackedsize, "PNG data bigger than file")
                       /\ pos' = pos + 4
                       /\ UNCHANGED <<unpackedsize, loc>>
                  ELSE IF got # 4 + chunksize
                  THEN /\ PngFail(0, offset + unpackedsize + 4, "Could not read chunk type")
                       /\ pos' = pos + 4 + got
                       /\ unpackedsize' = unpackedsize + 4
                       /\ UNCHANGED loc
                  ELSE IF CrcDiffers(chunktype, chunksize, crcgot, same)
                  THEN /\ PngFail(0, offset + unpackedsize + 8 + chunksize, "Wrong CRC")
                       /\ pos' = pos + 4 + got + crcgot
                       /\ unpackedsize' = unpackedsize + 8 + chunksize
                       /\ UNCHANGED loc
                  ELSE /\ pos' = pos + 4 + got + crcgot
                       /\ unpackedsize' = unpackedsize + 12 + chunksize
                       /\ UNCHANGED result
                       /\ IF chunktype = "IEND"
                          THEN /\ pc' = "png_finish"
                               /\ loc' = [loc EXCEPT !.endoffilereached = TRUE,
                                            !.crcbytes = crcgot,
                                            !.iendpos = pos + 4 + got + crcgot,
                                            !.chunkend = pos + 4 + got + crcgot,
                                            !.chunknames = @ \cup {chunktype}]
                          ELSE /\ pc' = "png_chunks"
                               /\ loc' = [loc EXCEPT !.idatseen = @ \/ chunktype = "IDAT",
                                            !.crcbytes = crcgot,
                                            !.chunkend = pos + 4 + got + crcgot,
                                            !.chunknames = @ \cup {chunktype}]

\* the labels of a PNG
PngLabels(animated) ==
    IF animated THEN {"png", "graphics", "animated", "apng"} ELSE {"png", "graphics"}

\* lines 316-371: IDAT seen, APNG, the check with PIL, labelling or carving
unpackPNG_finish ==
    /\ pc = "png_finish"
    /\ UNCHANGED <<parser, filesize, offset, unpackedsize, loc, tmpdir, cwd>>
    /\ pc' = "done"
    /\ LET animated == {"acTL", "fcTL", "fdAT"} \subseteq loc.chunknames
       IN  IF ~loc.idatseen
           THEN /\ result' = Ret(FALSE, 0, <<>>, {}, Err(offset, "No IDAT found"))
                /\ UNCHANGED <<pos, outdir, rewound>>
           ELSE IF loc.endoffilereached
           THEN \E pil \in BOOLEAN :
                  IF offset = 0 /\ unpackedsize = filesize
                  THEN \* PIL.Image.open(checkfile) seeks to the start of the file
                       /\ pos' = filesize
                       /\ rewound' = (rewound \/ 0 < pos)
                       /\ UNCHANGED outdir
                       /\ result' = IF pil
                                    THEN Ret(TRUE, unpackedsize, <<>>, PngLabels(animated), {})
                                    ELSE Ret(FALSE, unpackedsize, <<>>, {},
                                             Err(offset, "invalid PNG data according to PIL"))
                  ELSE /\ UNCHANGED <<pos, rewound>>
                       /\ outdir' = IF pil THEN outdir \cup {"unpacked.png"}
                                    ELSE outdir \ {"unpacked.png"}
                       /\ result' = IF pil
                                    THEN Ret(TRUE, unpackedsize,
                                             <<<<"unpacked.png", PngLabels(animated) \cup {"unpacked"}>>>>,
                                             {}, {})
                                    ELSE Ret(FALSE, unpackedsize, <<>>, {},
                                             Err(offset, "invalid PNG data according to PIL"))
           ELSE /\ result' = Ret(FALSE, 0, <<>>, {}, Err(offset + unpackedsize, "No IEND found"))
                /\ UNCHANGED <<pos, outdir, rewound>>

NextPNG ==
    \/ unpackPNG_header
    \/ unpackPNG_chunk
    \/ unpackPNG_finish

-----------------------------------------------------------------------------
(* unpackGzip. *)

GzSpans == Spans(4, MaxGzExtra)

\* what the original file name of the header is like: a plain name, an
\* absolute path, a name in a directory that does not exist under unpackdir,
\* bytes that are not UTF-8
GzNameKinds == {"plain", "absolute", "subdir", "nonutf8"}

\* The inputs besides the file, filename.endswith('.gz') and whether
\* unpackdir is a relative path, and what the original name is like, are
\* drawn where the code first uses them.
GzLoc ==
    [havecrc16 |-> FALSE, havefextra |-> FALSE, havefname |-> FALSE, havecomment |-> FALSE,
     namelen |-> 0, namekind |-> "plain", outfilename |-> "",
     iter |-> 0, eof |-> FALSE, wrote |-> FALSE, stale |-> FALSE,
     bodyend |-> 0, trailer |-> 8, flagbits |-> {}, crcstored |-> "unread"]

\* bit n of the flags byte
GzFlagBits == [crc16 : BOOLEAN, fextra : BOOLEAN, fname : BOOLEAN,
               fcomment : BOOLEAN, encrypted : BOOLEAN, reserved : BOOLEAN]

GzFail(reason) ==
    /\ result' = Ret(FALSE, 0, <<>>, {}, Err(offset + unpackedsize', reason))
    /\ pc' = "done"

\* the bits of the flags byte that are set, by the names of RFC 1952
GzBitsSet(flags) ==
    {b \in {"FHCRC", "FEXTRA", "FNAME", "FCOMMENT", "bit5", "bit6or7"} :
        \/ b = "FHCRC" /\ flags.crc16
        \/ b = "FEXTRA" /\ flags.fextra
        \/ b = "FNAME" /\ flags.fname
        \/ b = "FCOMMENT" /\ flags.fcomment
        \/ b = "bit5" /\ flags.encrypted
        \/ b = "bit6or7" /\ flags.reserved}

\* the first test of bit 2 of the flags
GzMultiPart(flags) == flags.fextra

\* lines 385-441: the flags byte
unpackGzip_flags ==
    /\ pc = "start" /\ parser = "Gzip"
    /\ UNCHANGED <<parser, filesize, offset, outdir, tmpdir, cwd, rewound>>
    /\ pos' = offset + 3 + ReadLen(offset + 3, 1)
    /\ IF ReadLen(offset + 3, 1) # 1
       THEN unpackedsize' = 3 /\ GzFail("not enough data") /\ UNCHANGED loc
       ELSE \E flags \in GzFlagBits :
              LET seen == [loc EXCEPT !.flagbits = GzBitsSet(flags)]
              IN  IF GzMultiPart(flags)
                  THEN unpackedsize' = 3 /\ GzFail("unsupported multi-part gzip") /\ loc' = seen
                  ELSE IF flags.encrypted
                  THEN unpackedsize' = 3 /\ GzFail("unsupported encrypted") /\ loc' = seen
                  ELSE IF flags.reserved
                  THEN unpackedsize' = 3 /\ GzFail("not a valid gzip file") /\ loc' = seen
                  ELSE /\ unpackedsize' = 4
                       /\ loc' = [seen EXCEPT !.havecrc16 = flags.crc16,
                                    !.havefextra = flags.fextra,
                                    !.havefname = flags.fname,
                                    !.havecomment = flags.fcomment]
                       /\ pc' = "gz_header"
                       /\ UNCHANGED result

\* the lengths of an original name that, with the terminating NUL, fits in
\* avail bytes
GzNames(avail) == {n \in 0 .. MaxGzName : n + 1 <= avail}

\* what an original name of n bytes can be like
GzKinds(n) ==
    {k \in GzNameKinds :
        /\ k = "absolute" => n >= 2
        /\ k = "subdir" => n >= 3}

\* lines 443-501: MTIME, XFL and OS are skipped; the extra field, the
\* original name, the comment and the CRC16
unpackGzip_header ==
    /\ pc = "gz_header"
    /\ UNCHANGED <<parser, filesize, offset, outdir, tmpdir, cwd, rewound>>
    /\ LET p0 == pos + 6
           xgot == IF loc.havefextra THEN ReadLen(p0, 2) ELSE 0
       IN  \E xlen \in 0 .. MaxGzName, nameend \in BOOLEAN, commentend \in BOOLEAN,
              clen \in 0 .. MaxGzName :
             IF loc.havefextra /\ xgot # 2
             THEN pos' = p0 + xgot /\ unpackedsize' = 10 /\ GzFail("not enough data") /\ UNCHANGED loc
             ELSE IF loc.havefextra /\ p0 + 2 + xlen > filesize
             THEN pos' = p0 + 2 /\ unpackedsize' = 10 /\ GzFail("extra data outside of file") /\ UNCHANGED loc
             ELSE
               \* the extra field is counted, and the file is not moved over it
               LET p1 == p0 + xgot
                   u1 == 10 + (IF loc.havefextra THEN xlen + 2 ELSE 0)
                   avail1 == Max(0, filesize - p1)
               IN  IF loc.havefname /\ (~nameend \/ GzNames(avail1) = {})
                   THEN /\ avail1 <= MaxGzName
                        /\ pos' = p1 + avail1
                        /\ unpackedsize' = u1 + avail1
                        /\ GzFail("file name data outside of file")
                        /\ UNCHANGED loc
                   ELSE \E name \in (IF loc.havefname THEN GzNames(avail1) ELSE {0}) :
                     LET p2 == p1 + (IF loc.havefname THEN name + 1 ELSE 0)
                         u2 == u1 + (IF loc.havefname THEN name + 1 ELSE 0)
                         avail2 == Max(0, filesize - p2)
                     IN  IF loc.havecomment /\ (~commentend \/ clen + 1 > avail2)
                         THEN /\ avail2 <= MaxGzName
                              /\ pos' = p2 + avail2
                              /\ unpackedsize' = u2 + avail2
                              /\ GzFail("comment data outside of file")
                              /\ UNCHANGED loc
                         ELSE LET p3 == p2 + (IF loc.havecomment THEN clen + 1 ELSE 0)
                                  u3 == u2 + (IF loc.havecomment THEN clen + 1 ELSE 0)
                              IN  /\ pos' = p3 + (IF loc.havecrc16 THEN 2 ELSE 0)
                                  /\ unpackedsize' = u3 + (IF loc.havecrc16 THEN 2 ELSE 0)
                                  /\ loc' = [loc EXCEPT !.namelen = name]
                                  /\ pc' = "gz_probe"
                                  /\ UNCHANGED result

\* the name of the output file before it is renamed
GzOutName(dotgz) == IF dotgz THEN "basename-without-gz" ELSE "unpacked-from-gz"

\* lines 503-535: the first byte of the DEFLATE data is looked at and the
\* file moved back over it; the output file is opened
unpackGzip_probe ==
    /\ pc = "gz_probe"
    /\ UNCHANGED <<parser, filesize, offset, unpackedsize, tmpdir, cwd>>
    /\ IF ReadLen(pos, 1) # 1
       THEN GzFail("not enough data") /\ UNCHANGED <<pos, loc, outdir, rewound>>
       ELSE \E reservedtype \in BOOLEAN, dotgz \in BOOLEAN :
              IF reservedtype
              THEN /\ GzFail("wrong DEFLATE header")
                   /\ pos' = pos + 1
                   /\ UNCHANGED <<loc, outdir, rewound>>
              ELSE /\ pos' = pos
                   /\ rewound' = TRUE
                   /\ loc' = [loc EXCEPT !.outfilename = GzOutName(dotgz)]
                   /\ outdir' = outdir \cup {GzOutName(dotgz)}
                   /\ pc' = "gz_decode"
                   /\ UNCHANGED result

\* len(checkbytes): the bytearray keeps its size whatever readinto stores
GzFed(readsize, got) == readsize

\* whether the loop is left after an iteration
GzLoopEnds(unused) == unused # 0

\* lines 543-559: one iteration of the decoding loop.  The decompressor
\* raises, or ends the stream after c bytes of the buffer, or takes the whole
\* buffer without reaching the end of the stream.
unpackGzip_decode ==
    /\ pc = "gz_decode"
    /\ loc.iter < MaxGzIter
    /\ UNCHANGED <<parser, filesize, offset, tmpdir, cwd, rewound>>
    /\ LET got == ReadLen(pos, GzReadSize)
       IN  /\ pos' = pos + got
           /\ \E outcome \in {"error", "end", "more"}, wrote \in BOOLEAN,
                 c \in 0 .. GzReadSize, reldir \in BOOLEAN :
                CASE outcome = "error" ->
                       /\ ~loc.eof
                       /\ c = 0 /\ ~wrote
                       /\ UNCHANGED unpackedsize
                       /\ pc' = "done"
                       /\ loc' = [loc EXCEPT !.iter = @ + 1]
                       /\ IF reldir
                          THEN \* os.path.join(unpackdir, outfilename) repeats unpackdir
                               /\ result' = Raised("FileNotFoundError")
                               /\ UNCHANGED outdir
                          ELSE /\ result' = Ret(FALSE, 0, <<>>, {},
                                                Err(offset + unpackedsize, "File not a valid gzip file"))
                               /\ outdir' = outdir \ {loc.outfilename}
                  [] outcome = "end" ->
                       \* the stream ends in the buffer: c bytes are used, at
                       \* most one of them a byte the file does not hold while
                       \* the buffer holds the zeroes it was made with
                       /\ ~reldir
                       /\ IF loc.eof THEN c = 0 /\ ~wrote
                          ELSE /\ c >= (IF loc.iter = 0 THEN 2 ELSE 1)
                               /\ (loc.iter = 0 => c <= got + 1)
                       /\ LET unused == GzReadSize - c
                          IN  /\ unpackedsize' = unpackedsize + GzFed(GzReadSize, got) - unused
                              /\ pc' = IF GzLoopEnds(unused) THEN "gz_trailer" ELSE "gz_decode"
                              /\ loc' = [loc EXCEPT !.iter = @ + 1, !.eof = TRUE,
                                           !.wrote = @ \/ wrote,
                                           !.stale = @ \/ (got = 0 /\ ~loc.eof)]
                       /\ UNCHANGED <<result, outdir>>
                  [] outcome = "more" ->
                       /\ ~loc.eof /\ ~reldir
                       /\ c = GzReadSize
                       /\ unpackedsize' = unpackedsize + GzFed(GzReadSize, got)
                       /\ pc' = "gz_decode"
                       /\ loc' = [loc EXCEPT !.iter = @ + 1, !.wrote = @ \/ wrote,
                                    !.stale = @ \/ got = 0]
                       /\ UNCHANGED <<result, outdir>>

\* the check that the trailer is in the file
GzNoTrailer(fsize, size, off) == fsize - size + off < 8

\* the check of ISIZE (the CRC32 is read at line 574 and not compared with
\* gzipcrc32, whether it is equal to it or differs): the n bytes read
\* differ from the size of the output, where same says whether the bytes
\* that could be read are the size's value, which no bytes are unless
\* nothing was written
GzIsizeDiffers(n, same, wrote) == ~(same /\ (n > 0 \/ ~wrote))

\* lines 560-587: the trailer
unpackGzip_trailer ==
    /\ pc = "gz_trailer"
    /\ UNCHANGED <<parser, filesize, offset, outdir, tmpdir, cwd>>
    /\ IF GzNoTrailer(filesize, unpackedsize, offset)
       THEN /\ result' = Ret(FALSE, 0, <<>>, {}, Err(offset + unpackedsize, "no CRC and ISIZE"))
            /\ pc' = "done"
            /\ UNCHANGED <<pos, unpackedsize, loc, rewound>>
       ELSE \E same \in BOOLEAN, crcstored \in {"equal", "differs"} :
              LET p == offset + unpackedsize
                  crcgot == ReadLen(p, 4)
                  isizegot == ReadLen(p + crcgot, 4)
              IN  /\ pos' = p + crcgot + isizegot
                  /\ rewound' = (rewound \/ p < pos)
                  /\ unpackedsize' = unpackedsize + 8
                  \* the stored CRC32 is read over by ISIZE, gzipcrc32 is not used
                  /\ loc' = [loc EXCEPT !.bodyend = p, !.trailer = crcgot + isizegot,
                                        !.crcstored = crcstored]
                  /\ IF GzIsizeDiffers(isizegot, same, loc.wrote)
                     THEN /\ result' = Ret(FALSE, 0, <<>>, {},
                                           Err(offset + unpackedsize + 8, "wrong value for ISIZE"))
                          /\ pc' = "done"
                     ELSE pc' = "gz_rename" /\ UNCHANGED result

\* a test for the labels that leaves out the size
GzFromStart(off, size, fsize) == off = 0

\* the test for the labels of the whole file
GzWholeFile(off, size, fsize) == off = 0 /\ off + size = fsize

\* lines 589-608: the output is renamed to the original name, and returned
unpackGzip_return ==
    /\ pc = "gz_rename"
    /\ UNCHANGED <<parser, filesize, offset, pos, unpackedsize, tmpdir, cwd, rewound>>
    /\ pc' = "done"
    /\ LET labels == IF GzWholeFile(offset, unpackedsize, filesize)
                     THEN {"gzip", "compressed"} ELSE {}
       IN  IF loc.havefname /\ loc.namelen # 0
           THEN \E namekind \in GzKinds(loc.namelen) :
                CASE namekind = "nonutf8" ->
                       /\ result' = Raised("UnicodeDecodeError")
                       /\ loc' = [loc EXCEPT !.namekind = namekind]
                       /\ UNCHANGED outdir
                  [] namekind = "plain" ->
                       /\ loc' = [loc EXCEPT !.outfilename = "origname", !.namekind = namekind]
                       /\ outdir' = (outdir \ {loc.outfilename}) \cup {"origname"}
                       /\ result' = Ret(TRUE, unpackedsize, <<<<"origname", {}>>>>, labels, {})
                  [] namekind = "absolute" ->
                       \* os.path.join gives the absolute name itself
                       /\ loc' = [loc EXCEPT !.outfilename = "/origname", !.namekind = namekind]
                       /\ outdir' = outdir \ {loc.outfilename}
                       /\ result' = Ret(TRUE, unpackedsize, <<<<"/origname", {}>>>>, labels, {})
                  [] namekind = "subdir" ->
                       \* shutil.move raises, which is passed over
                       /\ result' = Ret(TRUE, unpackedsize, <<<<loc.outfilename, {}>>>>, labels, {})
                       /\ loc' = [loc EXCEPT !.namekind = namekind]
                       /\ UNCHANGED outdir
           ELSE /\ result' = Ret(TRUE, unpackedsize, <<<<loc.outfilename, {}>>>>, labels, {})
                /\ UNCHANGED <<loc, outdir>>

NextGzip ==
    \/ unpackGzip_flags
    \/ unpackGzip_header
    \/ unpackGzip_probe
    \/ unpackGzip_decode
    \/ unpackGzip_trailer
    \/ unpackGzip_return

-----------------------------------------------------------------------------
(* unpackBMP. *)

BmpSpans == Spans(26, MaxBmpExtra)

BmpLoc == [bmpsize |-> 0, dibheadersize |-> 0]

\* the DIB header sizes that are tried: 13 is not a supported one
BmpDibs == {12, 13, 16}

\* the supported sizes of the DIB header
BmpValidDibs == {12, 64, 16, 40, 52, 56, 108, 124}

BmpFail(size, off, reason) ==
    /\ result' = Ret(FALSE, size, <<>>, {}, Err(off, reason))
    /\ pc' = "done"

\* lines 612-672: the file header and the size of the DIB header
unpackBMP_header ==
    /\ pc = "start" /\ parser = "BMP"
    /\ UNCHANGED <<parser, filesize, offset, outdir, tmpdir, cwd, rewound>>
    /\ IF filesize - offset < 26
       THEN BmpFail(0, offset, "File too small (less than 26 bytes") /\ UNCHANGED <<pos, unpackedsize, loc>>
       ELSE \E bmpsize \in 0 .. (filesize + 1), bmpoffset \in 0 .. (filesize + 1),
               dibheadersize \in BmpDibs :
              /\ loc' = [loc EXCEPT !.bmpsize = bmpsize, !.dibheadersize = dibheadersize]
              /\ IF offset + bmpsize > filesize
                 THEN /\ BmpFail(0, offset, "not enough data for BMP file")
                      /\ pos' = offset + 6 /\ unpackedsize' = 2
                 ELSE IF offset + bmpoffset > filesize
                 THEN /\ BmpFail(0, offset, "not enough data for BMP")
                      /\ pos' = offset + 14 /\ unpackedsize' = 10
                 ELSE IF dibheadersize \notin BmpValidDibs
                 THEN /\ BmpFail(0, offset, "invalid DIB header")
                      /\ pos' = offset + 16 /\ unpackedsize' = 10
                 ELSE IF offset + 14 + dibheadersize > filesize
                 THEN /\ BmpFail(0, offset, "not enough data for DIB header")
                      /\ pos' = offset + 16 /\ unpackedsize' = 10
                 ELSE IF bmpoffset < dibheadersize + 14
                 THEN /\ BmpFail(0, offset, "invalid BMP data offset")
                      /\ pos' = offset + 16 /\ unpackedsize' = 10
                 ELSE /\ pc' = "bmp_tool"
                      /\ pos' = offset + 16 /\ unpackedsize' = 12
                      /\ UNCHANGED result

\* bmptopnm can exit with 0 only for data that holds the two headers
BmpToolCanAccept(bmpsize, dibheadersize) == bmpsize >= 14 + dibheadersize

\* lines 674-701: the data is read again from the start and given to
\* bmptopnm; the file is labelled or carved
unpackBMP_tool ==
    /\ pc = "bmp_tool"
    /\ UNCHANGED <<parser, filesize, offset, unpackedsize, loc, tmpdir, cwd>>
    /\ pc' = "done"
    /\ \E which \in BOOLEAN, returncode \in {0, 1} :
         IF ~which
         THEN /\ result' = Ret(FALSE, unpackedsize, <<>>, {},
                               Err(offset + unpackedsize, "bmptopnm program not found"))
              /\ UNCHANGED <<pos, outdir, rewound>>
         ELSE /\ returncode = 0 => BmpToolCanAccept(loc.bmpsize, loc.dibheadersize)
              /\ pos' = offset + ReadLen(offset, loc.bmpsize)
              /\ rewound' = (rewound \/ offset < pos)
              /\ IF returncode # 0
                 THEN /\ result' = Ret(FALSE, 0, <<>>, {}, Err(offset, "invalid BMP"))
                      /\ UNCHANGED outdir
                 ELSE IF offset = 0 /\ filesize = loc.bmpsize
                 THEN /\ result' = Ret(TRUE, filesize, <<>>, {"bmp", "graphics"}, {})
                      /\ UNCHANGED outdir
                 ELSE /\ result' = Ret(TRUE, loc.bmpsize,
                                       <<<<"unpacked.bmp", {"bmp", "graphics", "unpacked"}>>>>, {}, {})
                      /\ outdir' = outdir \cup {"unpacked.bmp"}

NextBMP ==
    \/ unpackBMP_header
    \/ unpackBMP_tool

-----------------------------------------------------------------------------
(* unpackLZMA, unpackXZ and unpackLZMAWrapper. *)

LzSpans == Spans(13, MaxLzExtra)

\* the uncompressed size of the LZMA header: all bytes 0xff, 0, a size that
\* XZ Utils supports, a bigger one
LzDeclared == {"unknown", "zero", "known", "toobig"}

\* how filename ends: not in the extension, in the extension, in the
\* extension in other case
LzSuffixes == {"none", "ext", "EXT"}

LzLocs ==
    [suffix : LzSuffixes, lzmaunpackedsize : {"unknown"}, outfilename : {""},
     iter : {0}, eof : {FALSE}, wrote : {FALSE}, fed : {0}, unused : {0},
     checkbytes : {<<>>}, sizematch : {"unchecked"}]

\* the 8 bytes at offset + 5 that are tried, least significant byte first:
\* all 0xff, 0, 1, 2^38 - 1, 2^38 = 274877906944, 2^38 + 1, 2^56, 2^64 - 2
LzSizeFields ==
    {<<255, 255, 255, 255, 255, 255, 255, 255>>,
     <<0, 0, 0, 0, 0, 0, 0, 0>>,
     <<1, 0, 0, 0, 0, 0, 0, 0>>,
     <<255, 255, 255, 255, 63, 0, 0, 0>>,
     <<0, 0, 0, 0, 64, 0, 0, 0>>,
     <<1, 0, 0, 0, 64, 0, 0, 0>>,
     <<0, 0, 0, 0, 0, 0, 0, 1>>,
     <<254, 255, 255, 255, 255, 255, 255, 255>>}

\* int.from_bytes(a, byteorder='little') > int.from_bytes(b, byteorder='little')
\* for two fields of the same length
LzGreater(a, b) ==
    \E i \in 1 .. Len(a) :
        /\ a[i] > b[i]
        /\ \A j \in (i + 1) .. Len(a) : a[j] = b[j]

\* 274877906944, the 256 GiB of XZ Utils, as a field of 8 bytes
LzMaxSize == <<0, 0, 0, 0, 64, 0, 0, 0>>

\* a check that also rejects a declared size of 256 GiB
LzTooBigOrEqual(checkbytes) == LzGreater(checkbytes, LzMaxSize) \/ checkbytes = LzMaxSize

\* lzmaunpackedsize > 274877906944
LzTooBig(checkbytes) == LzGreater(checkbytes, LzMaxSize)

\* lines 725-736: what the size field stands for
LzDeclaredSize(checkbytes) ==
    IF checkbytes = <<255, 255, 255, 255, 255, 255, 255, 255>> THEN "unknown"
    ELSE IF checkbytes = <<0, 0, 0, 0, 0, 0, 0, 0>> THEN "zero"
    ELSE IF LzTooBig(checkbytes) THEN "toobig"
    ELSE "known"

\* lzmaunpackedsize of unpackLZMA for a declared size, -1 for an unknown one
LzExpected(declared) == IF declared = "unknown" THEN "unknown" ELSE "known"

\* lines 705-738: unpackLZMA reads the uncompressed size of the header
unpackLZMA_header ==
    /\ pc = "start" /\ parser = "LZMA"
    /\ UNCHANGED <<parser, filesize, offset, unpackedsize, outdir, tmpdir, cwd, rewound>>
    /\ IF filesize - offset < 13
       THEN /\ result' = Ret(FALSE, 0, <<>>, {}, Err(offset, "not enough bytes"))
            /\ pc' = "done"
            /\ UNCHANGED <<pos, loc>>
       ELSE \E checkbytes \in LzSizeFields :
              LET declared == LzDeclaredSize(checkbytes)
              IN  /\ pos' = offset + 13
                  /\ CASE declared = "zero" ->
                            /\ result' = Ret(FALSE, 0, <<>>, {}, Err(offset, "declared size 0"))
                            /\ pc' = "done"
                            /\ loc' = [loc EXCEPT !.checkbytes = checkbytes]
                       [] declared = "toobig" ->
                            /\ result' = Ret(FALSE, 0, <<>>, {}, Err(offset, "declared size too big"))
                            /\ pc' = "done"
                            /\ loc' = [loc EXCEPT !.checkbytes = checkbytes]
                       [] OTHER ->
                            /\ loc' = [loc EXCEPT !.lzmaunpackedsize = LzExpected(declared),
                                                  !.checkbytes = checkbytes]
                            /\ pc' = "lz_first"
                            /\ UNCHANGED result

\* line 847: unpackXZ calls the wrapper with -1 as the size
unpackXZ_call ==
    /\ pc = "start" /\ parser = "XZ"
    /\ UNCHANGED <<parser, filesize, offset, pos, unpackedsize, result, outdir, tmpdir, cwd, rewound>>
    /\ loc' = [loc EXCEPT !.lzmaunpackedsize = "unknown"]
    /\ pc' = "lz_first"

\* filetype, and ppfiletype in the reasons
LzType(p) == IF p = "XZ" THEN "xz" ELSE "lzma"

\* the name of the output file
LzOutName(p, suffix) ==
    IF suffix = "ext" THEN "basename-without-extension" ELSE "unpacked-from-" \o LzType(p)

\* lines 743-784: the first block of data is decompressed, and the output
\* file opened
unpackLZMAWrapper_first ==
    /\ pc = "lz_first"
    /\ UNCHANGED <<parser, filesize, offset, tmpdir, cwd>>
    /\ LET got == ReadLen(offset, LzFirstSize)
       IN  /\ pos' = offset + got
           /\ rewound' = (rewound \/ offset < pos)
           /\ \E outcome \in {"error", "end", "more"}, wrote \in BOOLEAN, c \in 0 .. got :
                CASE outcome = "error" ->
                       /\ got > 0 /\ c = 0 /\ ~wrote
                       /\ result' = Ret(FALSE, 0, <<>>, {}, Err(offset + unpackedsize, "not valid data"))
                       /\ pc' = "done"
                       /\ UNCHANGED <<unpackedsize, loc, outdir>>
                  [] outcome = "end" ->
                       /\ c >= 1
                       /\ unpackedsize' = unpackedsize + got - (got - c)
                       /\ loc' = [loc EXCEPT !.outfilename = LzOutName(parser, loc.suffix),
                                    !.eof = TRUE, !.wrote = wrote, !.fed = got, !.unused = got - c]
                       /\ outdir' = outdir \cup {LzOutName(parser, loc.suffix)}
                       /\ pc' = "lz_loop"
                       /\ UNCHANGED result
                  [] outcome = "more" ->
                       /\ c = got
                       /\ (got = 0 => ~wrote)
                       /\ unpackedsize' = unpackedsize + got
                       /\ loc' = [loc EXCEPT !.outfilename = LzOutName(parser, loc.suffix),
                                    !.wrote = wrote, !.fed = got]
                       /\ outdir' = outdir \cup {LzOutName(parser, loc.suffix)}
                       /\ pc' = "lz_loop"
                       /\ UNCHANGED result

\* lines 791-810: one read of the loop, and the decompression of what was read
unpackLZMAWrapper_loop ==
    /\ pc = "lz_loop"
    /\ UNCHANGED <<parser, filesize, offset, tmpdir, cwd, rewound>>
    /\ LET got == ReadLen(pos, LzReadSize)
       IN  /\ pos' = pos + got
           /\ IF got = 0 \/ loc.eof
              THEN \* no data is left, or the decompressor raises EOFError
                   /\ pc' = "lz_check"
                   /\ UNCHANGED <<unpackedsize, loc, result, outdir>>
              ELSE \E outcome \in {"error", "end", "more"}, wrote \in BOOLEAN, c \in 1 .. got :
                     CASE outcome = "error" ->
                            /\ c = 1 /\ ~wrote
                            /\ result' = Ret(FALSE, 0, <<>>, {},
                                             Err(offset + unpackedsize, "File not a valid file"))
                            /\ outdir' = outdir \ {loc.outfilename}
                            /\ pc' = "done"
                            /\ UNCHANGED <<unpackedsize, loc>>
                       [] outcome = "end" ->
                            /\ unpackedsize' = unpackedsize + got - (got - c)
                            /\ loc' = [loc EXCEPT !.eof = TRUE, !.wrote = @ \/ wrote,
                                         !.fed = @ + got, !.unused = got - c, !.iter = @ + 1]
                            /\ pc' = IF got - c # 0 THEN "lz_check" ELSE "lz_loop"
                            /\ UNCHANGED <<result, outdir>>
                       [] outcome = "more" ->
                            /\ c = got
                            /\ unpackedsize' = unpackedsize + got
                            /\ loc' = [loc EXCEPT !.wrote = @ \/ wrote, !.fed = @ + got,
                                         !.iter = @ + 1]
                            /\ pc' = "lz_loop"
                            /\ UNCHANGED <<result, outdir>>

\* a wrapper that compares no sizes
LzSizeCheckedNever(filetype, lzmaunpackedsize) == FALSE

\* whether the size of the output is compared with the size of the header
LzSizeChecked(filetype, lzmaunpackedsize) ==
    filetype = "lzma" /\ lzmaunpackedsize # "unknown"

\* os.stat(outfilename).st_size == 0
LzEmpty(wrote) == ~wrote

\* lines 811-843: empty output, the size of the header, renaming, labels
unpackLZMAWrapper_check ==
    /\ pc = "lz_check"
    /\ UNCHANGED <<parser, filesize, offset, pos, unpackedsize, tmpdir, cwd, rewound>>
    /\ pc' = "done"
    /\ \E samesize \in BOOLEAN :
         \* sizematch: whether the size of the output is the one of the header
         LET l == [loc EXCEPT !.sizematch = IF samesize THEN "same" ELSE "differs"]
         IN  IF LzEmpty(loc.wrote)
             THEN /\ result' = Ret(FALSE, 0, <<>>, {}, Err(offset + unpackedsize, "File not a valid file"))
                  /\ outdir' = outdir \ {loc.outfilename}
                  /\ loc' = l
             ELSE IF LzSizeChecked(LzType(parser), loc.lzmaunpackedsize) /\ ~samesize
             THEN /\ result' = Ret(FALSE, 0, <<>>, {},
                                   Err(offset + unpackedsize, "length of unpacked data does not correspond with header"))
                  /\ outdir' = outdir \ {loc.outfilename}
                  /\ loc' = l
             ELSE IF offset = 0 /\ unpackedsize = filesize
             THEN LET newname == IF loc.suffix = "none" THEN loc.outfilename
                                 ELSE "basename-without-extension"
                  IN  /\ outdir' = (outdir \ {loc.outfilename}) \cup {newname}
                      /\ loc' = [l EXCEPT !.outfilename = newname]
                      /\ result' = Ret(TRUE, unpackedsize, <<<<newname, {}>>>>,
                                       {LzType(parser), "compressed"}, {})
             ELSE /\ result' = Ret(TRUE, unpackedsize, <<<<loc.outfilename, {}>>>>, {}, {})
                  /\ loc' = l
                  /\ UNCHANGED outdir

NextLZMA ==
    \/ unpackLZMA_header
    \/ unpackXZ_call
    \/ unpackLZMAWrapper_first
    \/ unpackLZMAWrapper_loop
    \/ unpackLZMAWrapper_check

-----------------------------------------------------------------------------
(* unpackTimeZone. *)

TzSpans == Spans(44, MaxTzExtra)

TzLoc ==
    [version |-> 0, block |-> 1, i |-> 0,
     ut_indicators |-> 0, standard_indicators |-> 0, leap_cnt |-> 0,
     transition_times |-> 0, local_times |-> 0, tz_abbrevation_bytes |-> 0,
     maxindex |-> -1, tzstring |-> 0, tzchar |-> "none"]

\* the values of a count of a header.  The six counts are read with the
\* header; the model draws the value of each where the code first uses it.
TzCounts == 0 .. MaxTzCount

TzFail(size, reason) ==
    /\ result' = Ret(FALSE, size, <<>>, {}, Err(offset + size, reason))
    /\ unpackedsize' = size
    /\ pc' = "done"

TzSetCounts(l, version, block, local_times) ==
    [l EXCEPT !.version = version, !.block = block, !.i = 0,
       !.ut_indicators = 0, !.standard_indicators = 0, !.leap_cnt = 0,
       !.transition_times = 0, !.tz_abbrevation_bytes = 0,
       !.local_times = local_times]

\* lines 861-930: the first header
unpackTimeZone_header ==
    /\ pc = "start" /\ parser = "TimeZone"
    /\ UNCHANGED <<parser, filesize, offset, outdir, tmpdir, cwd, rewound>>
    /\ IF filesize - offset < 44
       THEN TzFail(0, "not enough bytes") /\ UNCHANGED <<pos, loc>>
       ELSE \E version \in {0, 2, 3, -1}, reserved \in BOOLEAN, local_times \in TzCounts :
              IF version = -1
              THEN TzFail(4, "invalid version") /\ pos' = offset + 5 /\ UNCHANGED loc
              ELSE IF ~reserved
              THEN TzFail(5, "reserved bytes not 0") /\ pos' = offset + 20 /\ UNCHANGED loc
              ELSE IF local_times = 0
              THEN TzFail(40, "local of times set to not-permitted 0") /\ pos' = offset + 40
                   /\ UNCHANGED loc
              ELSE /\ loc' = TzSetCounts(loc, version, 1, local_times)
                   /\ pos' = offset + 44
                   /\ unpackedsize' = 44
                   /\ pc' = "tz_times"
                   /\ UNCHANGED result

\* the width of a transition time, and of the first field of a leap second
\* entry, in the first and in the second data block
TzWidth(block) == IF block = 1 THEN 4 ELSE 8

\* lines 932-938 and 1121-1127: the transition times
unpackTimeZone_times ==
    /\ pc = "tz_times"
    /\ UNCHANGED <<parser, filesize, offset, outdir, tmpdir, cwd, rewound>>
    /\ \E transition_times \in TzCounts :
         LET w == TzWidth(loc.block)
             avail == Max(0, filesize - pos)
             full == Min(transition_times, avail \div w)
         IN  IF full < transition_times
             THEN /\ TzFail(unpackedsize + full * w, "not enough data for transition time")
                  /\ pos' = filesize
                  /\ UNCHANGED loc
             ELSE /\ pos' = pos + full * w
                  /\ unpackedsize' = unpackedsize + full * w
                  /\ loc' = [loc EXCEPT !.i = 0, !.transition_times = transition_times]
                  /\ pc' = "tz_index"
                  /\ UNCHANGED result

\* the test of an index into the local time types
TzIndexInvalid(index, local_times) == index > local_times

\* lines 942-952 and 1131-1141: one index of a transition time
unpackTimeZone_index ==
    /\ pc = "tz_index"
    /\ UNCHANGED <<parser, filesize, offset, outdir, tmpdir, cwd, rewound>>
    /\ IF loc.i >= loc.transition_times
       THEN /\ \E tz_abbrevation_bytes \in TzCounts :
                 loc' = [loc EXCEPT !.i = 0, !.tz_abbrevation_bytes = tz_abbrevation_bytes]
            /\ pc' = "tz_ttinfo"
            /\ UNCHANGED <<pos, unpackedsize, result>>
       ELSE IF ReadLen(pos, 1) # 1
       THEN /\ TzFail(unpackedsize, "not enough data for transition time")
            /\ UNCHANGED <<pos, loc>>
       ELSE \E index \in 0 .. (loc.local_times + 1) :
              /\ pos' = pos + 1
              /\ IF TzIndexInvalid(index, loc.local_times)
                 THEN TzFail(unpackedsize + 1, "invalid index for transition time")
                      /\ UNCHANGED loc
                 ELSE /\ unpackedsize' = unpackedsize + 1
                      /\ loc' = [loc EXCEPT !.i = @ + 1,
                                   !.maxindex = Max(@, index - loc.local_times)]
                      /\ pc' = "tz_index"
                      /\ UNCHANGED result

\* lines 955-986 and 1144-1175: one ttinfo entry
unpackTimeZone_ttinfo ==
    /\ pc = "tz_ttinfo"
    /\ UNCHANGED <<parser, filesize, offset, outdir, tmpdir, cwd, rewound>>
    /\ IF loc.i >= loc.local_times
       THEN /\ pc' = "tz_rest"
            /\ UNCHANGED <<pos, unpackedsize, loc, result>>
       ELSE \E dst \in 0 .. 2, abbrind \in 0 .. (loc.tz_abbrevation_bytes + 1) :
              /\ pos' = pos + ReadLen(pos, 6)
              /\ IF ReadLen(pos, 4) # 4
                 THEN TzFail(unpackedsize, "not enough data for ttinfo GMT offsets") /\ UNCHANGED loc
                 ELSE IF ReadLen(pos + 4, 1) # 1
                 THEN TzFail(unpackedsize + 4, "not enough data for ttinfo DST info") /\ UNCHANGED loc
                 ELSE IF ~(dst = 0 \/ dst = 1)
                 THEN TzFail(unpackedsize + 4, "invalid value for ttinfo DST info") /\ UNCHANGED loc
                 ELSE IF ReadLen(pos + 5, 1) # 1
                 THEN TzFail(unpackedsize + 5, "not enough data for ttinfo abbreviation index")
                      /\ UNCHANGED loc
                 ELSE IF abbrind > loc.tz_abbrevation_bytes
                 THEN TzFail(unpackedsize + 5, "invalid value for ttinfo abbreviation index")
                      /\ UNCHANGED loc
                 ELSE /\ unpackedsize' = unpackedsize + 6
                      /\ loc' = [loc EXCEPT !.i = @ + 1]
                      /\ pc' = "tz_ttinfo"
                      /\ UNCHANGED result

\* lines 989-1028 and 1178-1217: the abbreviations, the leap seconds, the
\* standard/wall and the UT/local indicators
unpackTimeZone_rest ==
    /\ pc = "tz_rest"
    /\ UNCHANGED <<parser, filesize, offset, outdir, tmpdir, cwd, rewound>>
    /\ \E leap_cnt \in TzCounts, standard_indicators \in TzCounts, ut_indicators \in TzCounts :
         LET w == TzWidth(loc.block)
             a0 == Max(0, filesize - pos)
             ab == loc.tz_abbrevation_bytes
             a1 == a0 - ab
             leaps == Min(leap_cnt, a1 \div (w + 4))
             a2 == a1 - leaps * (w + 4)
             u2 == unpackedsize + ab + leaps * (w + 4)
             stds == Min(standard_indicators, a2)
             a3 == a2 - stds
             uts == Min(ut_indicators, a3)
         IN  IF a0 < ab
             THEN TzFail(unpackedsize, "not enough data for abbreviation bytes")
                  /\ pos' = filesize /\ UNCHANGED loc
             ELSE IF leaps < leap_cnt
             THEN TzFail(u2 + (IF a2 >= w THEN w ELSE 0), "not enough data for leap seconds")
                  /\ pos' = filesize /\ UNCHANGED loc
             ELSE IF stds < standard_indicators
             THEN TzFail(u2 + stds, "not enough data for standard indicator")
                  /\ pos' = filesize /\ UNCHANGED loc
             ELSE IF uts < ut_indicators
             THEN TzFail(u2 + stds + uts, "not enough data for UT indicator")
                  /\ pos' = filesize /\ UNCHANGED loc
             ELSE /\ pos' = pos + ab + leaps * (w + 4) + stds + uts
                  /\ unpackedsize' = u2 + stds + uts
                  /\ pc' = IF loc.block = 2 THEN "tz_posix"
                           ELSE IF loc.version = 0 THEN "tz_return" ELSE "tz_header2"
                  /\ UNCHANGED <<loc, result>>

\* lines 1048-1119: the second header
unpackTimeZone_header2 ==
    /\ pc = "tz_header2"
    /\ UNCHANGED <<parser, filesize, offset, outdir, tmpdir, cwd, rewound>>
    /\ IF offset + unpackedsize + 44 > filesize
       THEN TzFail(unpackedsize, "not enough data for version 2 timezone header")
            /\ UNCHANGED <<pos, loc>>
       ELSE \E magic \in BOOLEAN, newversion \in {2, 3, -1}, reserved \in BOOLEAN,
               local_times \in TzCounts :
              IF ~magic
              THEN TzFail(unpackedsize, "invalid magic for version 2 header")
                   /\ pos' = pos + 4 /\ UNCHANGED loc
              ELSE IF newversion = -1
              THEN TzFail(unpackedsize + 4, "invalid version")
                   /\ pos' = pos + 5 /\ UNCHANGED loc
              ELSE IF loc.version # newversion
              THEN TzFail(unpackedsize + 4, "versions in headers don't match")
                   /\ pos' = pos + 5 /\ UNCHANGED loc
              ELSE IF ~reserved
              THEN TzFail(unpackedsize + 5, "reserved bytes not 0")
                   /\ pos' = pos + 20 /\ UNCHANGED loc
              ELSE IF local_times = 0
              THEN TzFail(unpackedsize + 40, "local of times set to not-permitted 0")
                   /\ pos' = pos + 40 /\ UNCHANGED loc
              ELSE /\ loc' = TzSetCounts(loc, loc.version, 2, local_times)
                   /\ pos' = pos + 44
                   /\ unpackedsize' = unpackedsize + 44
                   /\ pc' = "tz_times"
                   /\ UNCHANGED result

\* what a byte of the POSIX TZ string is
TzChars == {"newline", "printable", "space", "control"}

\* lines 1221-1253: the POSIX TZ string between two newlines.  The test of a
\* character names the module string, which is not imported.
unpackTimeZone_posix ==
    /\ pc = "tz_posix"
    /\ UNCHANGED <<parser, filesize, offset, outdir, tmpdir, cwd, rewound>>
    /\ IF ReadLen(pos, 1) # 1
       THEN TzFail(unpackedsize, "not enough data for POSIX TZ environment style string")
            /\ UNCHANGED <<pos, loc>>
       ELSE \E first \in {"newline", "printable"}, char \in TzChars :
              IF first # "newline"
              THEN TzFail(unpackedsize, "wrong value for POSIX TZ environment style string")
                   /\ pos' = pos + 1 /\ UNCHANGED loc
              ELSE IF ReadLen(pos + 1, 1) # 1
              THEN TzFail(unpackedsize + 1, "enclosing newline for POSIX TZ environment style string not found")
                   /\ pos' = pos + 1 /\ UNCHANGED loc
              ELSE IF char = "newline"
              THEN /\ pos' = pos + 2
                   /\ unpackedsize' = unpackedsize + 2
                   /\ pc' = "tz_return"
                   /\ UNCHANGED <<loc, result>>
              ELSE /\ pos' = pos + 2
                   /\ unpackedsize' = unpackedsize + 2
                   /\ loc' = [loc EXCEPT !.tzstring = 1, !.tzchar = char]
                   /\ result' = Raised("NameError")
                   /\ pc' = "done"

\* lines 1031-1044 and 1255-1268: the file is labelled, or carved
unpackTimeZone_return ==
    /\ pc = "tz_return"
    /\ UNCHANGED <<parser, filesize, offset, pos, unpackedsize, loc, tmpdir, cwd, rewound>>
    /\ pc' = "done"
    /\ IF offset = 0 /\ unpackedsize = filesize
       THEN /\ result' = Ret(TRUE, unpackedsize, <<>>, {"resource", "timezone"}, {})
            /\ UNCHANGED outdir
       ELSE /\ result' = Ret(TRUE, unpackedsize,
                             <<<<"unpacked-from-timezone", {"timezone", "resource", "unpacked"}>>>>,
                             {}, {})
            /\ outdir' = outdir \cup {"unpacked-from-timezone"}

NextTimeZone ==
    \/ unpackTimeZone_header
    \/ unpackTimeZone_times
    \/ unpackTimeZone_index
    \/ unpackTimeZone_ttinfo
    \/ unpackTimeZone_rest
    \/ unpackTimeZone_header2
    \/ unpackTimeZone_posix
    \/ unpackTimeZone_return

-----------------------------------------------------------------------------
(* unpackTar, lines 1272-1387.  The file is read by the tarfile module in    *)
(* blocks of 512 bytes, which the model scales to TarBlock.                   *)

TarLoc ==
    [firstmember |-> [type |-> "none", size |-> 0], taroffset |-> 0, members |-> 0,
     tarunpacked |-> FALSE, tarerror |-> FALSE, unpackedname |-> "", tounpack |-> "",
     unpackingerror |-> {}, files |-> <<>>, removed |-> {}, partial |-> {},
     tarend |-> -1, zeros |-> 0]

TarTypes == {"reg", "dir", "sym", "lnk", "dev"}

\* the name of the i-th member of the archive
TarName(i) == <<"member1", "member2", "member3", "member4">>[i]

\* TarFile.next reading a header at position at, the file's absolute
\* position, after seen members: what it returns or raises, the member, and
\* where the cursor is left
TarHeaders(at, fsize, seen) ==
    IF fsize - at < TarBlock
    THEN {[kind |-> IF at = 0 THEN "ReadError" ELSE "none", type |-> "none", size |-> 0,
           tell |-> at + Max(0, fsize - at)]}
    ELSE {[kind |-> "none", type |-> "none", size |-> 0, tell |-> at + TarBlock],
          [kind |-> IF at = 0 THEN "ReadError" ELSE "none", type |-> "none", size |-> 0,
           tell |-> at + TarBlock],
          [kind |-> "ReadError", type |-> "none", size |-> 0,
           tell |-> Min(fsize, at + 2 * TarBlock)]}
         \cup {[kind |-> "member", type |-> t, size |-> s, tell |-> at + TarBlock] :
                 t \in (IF seen < MaxTarMembers THEN TarTypes ELSE {}),
                 s \in 0 .. MaxTarData}

\* the blocks that the data of a member takes
TarDataBlocks(type, size) ==
    IF type = "reg" THEN ((size + TarBlock - 1) \div TarBlock) * TarBlock ELSE 0

\* lines 1273-1303: tarfile.open reads the first header, and raises outside
\* of any try
unpackTar_open ==
    /\ pc = "start" /\ parser = "Tar"
    /\ UNCHANGED <<parser, filesize, offset, unpackedsize, outdir, tmpdir, cwd, rewound>>
    /\ \E h \in TarHeaders(offset, filesize, 0) :
         /\ pos' = h.tell
         /\ IF h.kind = "ReadError"
            THEN /\ result' = Raised("ReadError")
                 /\ pc' = "done"
                 /\ UNCHANGED loc
            ELSE /\ loc' = [loc EXCEPT !.firstmember = [type |-> h.type, size |-> h.size],
                                       !.taroffset = IF h.kind = "member"
                                                     THEN offset + TarBlock + TarDataBlocks(h.type, h.size)
                                                     ELSE offset]
                 /\ pc' = "tar_loop"
                 /\ UNCHANGED result

\* lines 1339-1351: the handler of an exception in an iteration.  The entry
\* it removes is unpackedname, which the iteration before bound, and which
\* is not bound in the first; dir is what the output directory holds.
TarExcept(oldunpackedsize, tounpack, tell, l, dir) ==
    /\ pos' = tell
    /\ unpackedsize' = oldunpackedsize
    /\ IF tounpack # ""
       THEN IF l.unpackedname = ""
            THEN /\ result' = Raised("UnboundLocalError")
                 /\ pc' = "done"
                 /\ loc' = [l EXCEPT !.tarerror = TRUE, !.tounpack = tounpack,
                              !.unpackingerror = Err(offset + oldunpackedsize, "str(e)")]
                 /\ outdir' = dir
            ELSE \E reldir \in BOOLEAN :
                   IF reldir
                   THEN \* os.path.join(unpackdir, unpackedname) repeats unpackdir
                        /\ result' = Raised("FileNotFoundError")
                        /\ pc' = "done"
                        /\ loc' = [l EXCEPT !.tarerror = TRUE, !.tounpack = tounpack,
                                     !.unpackingerror = Err(offset + oldunpackedsize, "str(e)")]
                        /\ outdir' = dir
                   ELSE /\ outdir' = dir \ {l.unpackedname}
                        /\ loc' = [l EXCEPT !.tarerror = TRUE, !.tounpack = tounpack,
                                     !.removed = @ \cup {l.unpackedname},
                                     !.unpackingerror = Err(offset + oldunpackedsize, "str(e)")]
                        /\ pc' = "tar_finish"
                        /\ UNCHANGED result
       ELSE /\ loc' = [l EXCEPT !.tarerror = TRUE, !.tounpack = tounpack,
                         !.unpackingerror = Err(offset + oldunpackedsize, "str(e)")]
            /\ pc' = "tar_finish"
            /\ outdir' = dir
            /\ UNCHANGED result

\* lines 1318-1338: a member is extracted.  h is its header, read with the
\* cursor left at tell.
TarExtract(oldunpackedsize, h, tell, l) ==
    LET name == TarName(l.members + 1)
        seen == [l EXCEPT !.members = @ + 1, !.firstmember = TarLoc.firstmember,
                   !.taroffset = tell + TarDataBlocks(h.type, h.size)]
        avail == Max(0, filesize - tell)
    IN  IF h.type = "dev"
        THEN /\ loc' = [seen EXCEPT !.tounpack = ""]
             /\ pos' = tell
             /\ pc' = "tar_loop"
             /\ UNCHANGED <<unpackedsize, result, outdir>>
        ELSE \E failed \in BOOLEAN :
               IF failed
               THEN \* the entry could not be made
                    TarExcept(oldunpackedsize, name, tell, seen, outdir)
               ELSE IF h.type = "reg" /\ avail < h.size
               THEN \* the data ends before the member does: a part is written
                    TarExcept(oldunpackedsize, name, tell + avail,
                              [seen EXCEPT !.partial = @ \cup {name}], outdir \cup {name})
               ELSE LET tell2 == tell + (IF h.type = "reg" THEN h.size ELSE 0)
                    IN  /\ pos' = tell2
                        /\ unpackedsize' = tell2 - offset
                        /\ outdir' = outdir \cup {name}
                        /\ loc' = [seen EXCEPT
                                     !.tarunpacked = TRUE, !.unpackedname = name,
                                     !.tounpack = "",
                                     !.files = IF h.type = "reg" THEN Append(@, <<name, {}>>)
                                               ELSE IF h.type = "sym"
                                               THEN Append(@, <<name, {"symbolic link"}>>)
                                               ELSE @]
                        /\ pc' = "tar_loop"
                        /\ UNCHANGED result

\* lines 1305-1351: one iteration of the loop over the members
unpackTar_next ==
    /\ pc = "tar_loop"
    /\ UNCHANGED <<parser, filesize, offset, tmpdir, cwd, rewound>>
    /\ LET oldunpackedsize == pos - offset
       IN  IF loc.firstmember.type # "none"
           THEN TarExtract(oldunpackedsize,
                           [kind |-> "member", type |-> loc.firstmember.type,
                            size |-> loc.firstmember.size, tell |-> pos], pos, loc)
           ELSE IF loc.taroffset # pos /\ loc.taroffset - 1 >= filesize
           THEN \* next() finds no byte before the header it is to read
                TarExcept(oldunpackedsize, "", loc.taroffset - 1, loc, outdir)
           ELSE \E h \in TarHeaders(loc.taroffset, filesize, loc.members) :
                  CASE h.kind = "ReadError" ->
                         TarExcept(oldunpackedsize, "", h.tell, loc, outdir)
                    [] h.kind = "none" ->
                         /\ pos' = h.tell
                         /\ pc' = "tar_finish"
                         /\ UNCHANGED <<unpackedsize, loc, result, outdir>>
                    [] h.kind = "member" ->
                         TarExtract(oldunpackedsize, h, h.tell, loc)

\* lines 1375-1382: the blocks of padding after the archive that are taken,
\* of which the file holds zeros that are all zero
TarPadding(size, off, fsize, zeros) ==
    IF size % TarBlock = 0
    THEN Min(zeros, Max(0, fsize - off - size) \div TarBlock)
    ELSE 0

\* the test for the labels of the whole file
TarWholeFile(off, size, fsize) == off = 0 /\ size = fsize

\* lines 1354-1387: the result
unpackTar_finish ==
    /\ pc = "tar_finish"
    /\ UNCHANGED <<parser, filesize, offset, outdir, tmpdir, cwd, rewound>>
    /\ pc' = "done"
    /\ IF ~loc.tarunpacked
       THEN /\ result' = Ret(FALSE, filesize, loc.files, {}, Err(offset, "Not a valid tar file"))
            /\ UNCHANGED <<pos, unpackedsize, loc>>
       ELSE \E zeros \in 0 .. MaxTarPad :
              LET size == pos - offset
                  n == TarPadding(size, offset, filesize, zeros)
                  size2 == size + n * TarBlock
              IN  /\ unpackedsize' = size2
                  \* tarend: line 1363; zeros: the zero blocks the file holds there
                  /\ loc' = [loc EXCEPT !.tarend = size, !.zeros = zeros]
                  /\ pos' = (IF size % TarBlock = 0 /\ offset + size2 < filesize
                             THEN pos + n * TarBlock + ReadLen(pos + n * TarBlock, TarBlock)
                             ELSE pos + n * TarBlock)
                  /\ result' = Ret(TRUE, size2, loc.files,
                                   IF TarWholeFile(offset, size2, filesize)
                                   THEN {"tar", "archive"} ELSE {},
                                   loc.unpackingerror)

NextTar == unpackTar_open \/ unpackTar_next \/ unpackTar_finish

-----------------------------------------------------------------------------
(* unpackAr, lines 1392-1443.  The ar program decides what is in the file.  *)

ArLoc == [tested |-> FALSE]

\* the members an archive can hold
ArMembers == {"debian-binary", "data.tar"}

\* a directory listing as a list
RECURSIVE ListDir(_)
ListDir(dir) ==
    IF dir = {} THEN <<>>
    ELSE LET f == CHOOSE x \in dir : TRUE
         IN  <<<<f, {}>>>> \o ListDir(dir \ {f})

ArFail(reason) ==
    /\ result' = Ret(FALSE, unpackedsize, <<>>, {}, Err(offset + unpackedsize, reason))
    /\ pc' = "done"

\* lines 1394-1414: the offset, the program, and the test of the archive
\* ar can exit with 0 only for a file that holds the 8 bytes of the global
\* header of an archive
ArToolCanAccept(fsize) == fsize >= 8

unpackAr_test ==
    /\ pc = "start" /\ parser = "Ar"
    /\ UNCHANGED <<parser, filesize, offset, pos, unpackedsize, outdir, tmpdir, cwd, rewound>>
    /\ IF offset # 0
       THEN ArFail("Currently only works on whole files") /\ UNCHANGED loc
       ELSE \E which \in BOOLEAN, returncode \in {0, 1} :
              IF ~which
              THEN ArFail("ar program not found") /\ UNCHANGED loc
              ELSE IF returncode # 0 \/ ~ArToolCanAccept(filesize)
              THEN ArFail("Not a valid ar file") /\ UNCHANGED loc
              ELSE /\ loc' = [loc EXCEPT !.tested = TRUE]
                   /\ pc' = "ar_extract"
                   /\ UNCHANGED result

\* the labels of an archive with these members
ArLabels(members, dotdeb) ==
    {"archive", "ar"} \cup
    (IF "debian-binary" \in members /\ dotdeb THEN {"debian", "deb"} ELSE {})

\* lines 1417-1443: the members are extracted into unpackdir
unpackAr_extract ==
    /\ pc = "ar_extract"
    /\ UNCHANGED <<parser, filesize, offset, pos, unpackedsize, loc, tmpdir, cwd, rewound>>
    /\ \E members \in SUBSET ArMembers, returncode \in {0, 1}, dotdeb \in BOOLEAN :
         IF returncode # 0
         THEN \* what was left behind is removed
              /\ outdir' = {}
              /\ ArFail("Not a valid ar file")
         ELSE /\ outdir' = outdir \cup members
              /\ result' = Ret(TRUE, filesize, ListDir(outdir \cup members),
                               ArLabels(members, dotdeb), {})
              /\ pc' = "done"

NextAr == unpackAr_test \/ unpackAr_extract

-----------------------------------------------------------------------------
(* unpackSquashfs, lines 1449-1593.  The unsquashfs program decides what is  *)
(* in the file system.                                                       *)

SqLoc == [bigendian |-> FALSE, majorversion |-> 0, squashfssize |-> -1,
          temporaryfile |-> FALSE, produced |-> {}]

SqSpans == Spans(30, MaxSqExtra)

\* the major versions a header can hold: those released and one on each side
SqVersions == 0 .. 5

\* the sizes a header can hold for data of span bytes
SqSizes(span) == {0, span, span + 1} \cup (IF span > 1 THEN {span - 1} ELSE {})

\* where the size of the file system is, and how many bytes it is, for the
\* major versions that the code knows
SqSizeAt(majorversion) ==
    CASE majorversion = 4 -> <<40, 8>>
      [] majorversion = 3 -> <<63, 8>>
      [] majorversion = 2 -> <<8, 4>>
      [] OTHER -> <<0, 0>>

\* the files a file system can hold
SqFiles == {"file1", "file2"}

SqFail(reason) ==
    /\ result' = Ret(FALSE, unpackedsize, <<>>, {}, Err(offset + unpackedsize, reason))
    /\ pc' = "done"

\* the file system is larger than the data
SqOutsideFile(off, squashfssize, fsize) == off + squashfssize > fsize

\* lines 1450-1535: the header
unpackSquashfs_header ==
    /\ pc = "start" /\ parser = "Squashfs"
    /\ UNCHANGED <<parser, filesize, offset, unpackedsize, outdir, tmpdir, cwd>>
    /\ \E which \in BOOLEAN :
         IF ~which
         THEN SqFail("unsquashfs program not found") /\ UNCHANGED <<pos, loc, rewound>>
         ELSE IF filesize - offset < 30
         THEN SqFail("not enough data") /\ UNCHANGED <<pos, loc, rewound>>
         ELSE \E hsqs \in BOOLEAN, majorversion \in SqVersions :
                IF majorversion = 0 \/ majorversion > 4
                THEN /\ SqFail("invalid squashfs version")
                     /\ pos' = offset + 30
                     /\ loc' = [loc EXCEPT !.bigendian = ~hsqs, !.majorversion = majorversion]
                     /\ UNCHANGED rewound
                ELSE IF majorversion = 1
                THEN \* no branch sets squashfssize, which line 1532 reads
                     /\ result' = Raised("UnboundLocalError")
                     /\ pc' = "done"
                     /\ pos' = offset + 30
                     /\ loc' = [loc EXCEPT !.bigendian = ~hsqs, !.majorversion = majorversion]
                     /\ UNCHANGED rewound
                ELSE LET at == offset + SqSizeAt(majorversion)[1]
                         want == SqSizeAt(majorversion)[2]
                         got == ReadLen(at, want)
                     IN  /\ pos' = at + got
                         /\ rewound' = (rewound \/ at < offset + 30)
                         /\ IF got # want
                            THEN /\ SqFail("not enough data to read size")
                                 /\ loc' = [loc EXCEPT !.bigendian = ~hsqs,
                                              !.majorversion = majorversion]
                            ELSE \E squashfssize \in SqSizes(filesize - offset) :
                                   /\ loc' = [loc EXCEPT !.bigendian = ~hsqs,
                                                !.majorversion = majorversion,
                                                !.squashfssize = squashfssize]
                                   /\ IF SqOutsideFile(offset, squashfssize, filesize)
                                      THEN SqFail("file system cannot extend past file")
                                      ELSE pc' = "sq_copy" /\ UNCHANGED result

\* lines 1537-1550: the data is copied to a temporary file unless it starts
\* the file, and the temporary directory is made
unpackSquashfs_copy ==
    /\ pc = "sq_copy"
    /\ UNCHANGED <<parser, filesize, offset, pos, unpackedsize, result, outdir, cwd, rewound>>
    /\ tmpdir' = tmpdir \cup {"squashfsunpackdirectory"}
                        \cup (IF offset # 0 THEN {"temporaryfile"} ELSE {})
    /\ loc' = [loc EXCEPT !.temporaryfile = (offset # 0)]
    /\ pc' = "sq_run"

\* a call that keeps its temporary file
SqUnlinkNothing(dir, off) == dir

\* lines 1557-1558: the temporary file is removed when unsquashfs has run
SqUnlink(dir, off) == IF off # 0 THEN dir \ {"temporaryfile"} ELSE dir

\* lines 1552-1564: unsquashfs runs in the temporary directory
unpackSquashfs_run ==
    /\ pc = "sq_run"
    /\ UNCHANGED <<parser, filesize, offset, pos, unpackedsize, outdir, cwd, rewound>>
    /\ \E returncode \in {0, 1}, produced \in SUBSET SqFiles :
         IF returncode # 0
         THEN /\ tmpdir' = SqUnlink(tmpdir, offset) \ {"squashfsunpackdirectory"}
              /\ SqFail("Not a valid squashfs file")
              /\ UNCHANGED loc
         ELSE /\ tmpdir' = SqUnlink(tmpdir, offset)
              /\ loc' = [loc EXCEPT !.produced = produced]
              /\ pc' = "sq_move"
              /\ UNCHANGED result

\* lines 1566-1593: the files are moved to unpackdir from the temporary
\* directory, which is made the working directory of the process, and the
\* result is made.  unpackdir, when it is a relative path, names another
\* place from there.
unpackSquashfs_move ==
    /\ pc = "sq_move"
    /\ UNCHANGED <<parser, filesize, offset, pos, unpackedsize, loc, rewound>>
    /\ cwd' = "squashfsunpackdirectory"
    /\ pc' = "done"
    /\ \E reldir \in BOOLEAN, moved \in BOOLEAN :
         IF reldir /\ loc.produced # {}
         THEN IF moved
              THEN \* the files are renamed inside the temporary directory
                   /\ tmpdir' = tmpdir \ {"squashfsunpackdirectory"}
                   /\ result' = Ret(TRUE, loc.squashfssize, <<>>, {},
                                    Err(offset, "Not a valid Squashfs"))
                   /\ UNCHANGED outdir
              ELSE /\ result' = Raised("FileNotFoundError")
                   /\ UNCHANGED <<tmpdir, outdir>>
         ELSE /\ moved
              /\ tmpdir' = tmpdir \ {"squashfsunpackdirectory"}
              /\ outdir' = outdir \cup loc.produced
              /\ result' = Ret(TRUE, loc.squashfssize, ListDir(outdir \cup loc.produced), {},
                               Err(offset, "Not a valid Squashfs"))

NextSquashfs ==
    \/ unpackSquashfs_header
    \/ unpackSquashfs_copy
    \/ unpackSquashfs_run
    \/ unpackSquashfs_move

-----------------------------------------------------------------------------
(* Two calls of unpackSquashfs in two threads of one process, each with its   *)
(* own file, unpackdir and temporary directory.  loc, outdir and tmpdir hold   *)
(* what each thread has of them; the working directory cwd is the process's,   *)
(* and is "start" or the thread whose temporary directory it is.  A file is    *)
(* its name and the thread whose file system it comes from.                    *)

SqThreads == {"thread1", "thread2"}

SqThreadLoc == [pc |-> "start", produced |-> {}, listoffiles |-> {}, result |-> NoResult]

\* the names of the files of a directory
SqNames(dir) == {f[1] : f \in dir}

\* what thread t leaves in its unpackdir when it runs alone
SqAlone(t) == {<<name, t>> : name \in loc[t].produced}

SqThreadRaise(t, e) == loc' = [loc EXCEPT ![t].pc = "done", ![t].result = Raised(e)]

\* lines 1450-1564 in thread t: the header is accepted and unsquashfs runs
\* in the temporary directory of the thread
unpackSquashfs_thread_run(t) ==
    /\ loc[t].pc = "start"
    /\ UNCHANGED <<parser, filesize, offset, pc, pos, unpackedsize, result, outdir, cwd, rewound>>
    /\ \E returncode \in {0, 1}, produced \in SUBSET SqFiles :
         IF returncode # 0
         THEN /\ loc' = [loc EXCEPT ![t].pc = "done",
                           ![t].result = Ret(FALSE, 0, <<>>, {},
                                             Err(0, "Not a valid squashfs file"))]
              /\ tmpdir' = [tmpdir EXCEPT ![t] = [exists |-> FALSE, files |-> {}]]
         ELSE /\ loc' = [loc EXCEPT ![t].pc = "sq_chdir", ![t].produced = produced]
              /\ tmpdir' = [tmpdir EXCEPT ![t] = [exists |-> TRUE,
                                                   files |-> {<<name, t>> : name \in produced}]]

\* lines 1567-1572 in thread t: os.chdir
unpackSquashfs_thread_chdir(t) ==
    /\ loc[t].pc = "sq_chdir"
    /\ UNCHANGED <<parser, filesize, offset, pc, pos, unpackedsize, result, outdir, tmpdir, rewound>>
    /\ cwd' = t
    /\ loc' = [loc EXCEPT ![t].pc = "sq_listdir"]

\* line 1573 in thread t: os.listdir() of the working directory
unpackSquashfs_thread_listdir(t) ==
    /\ loc[t].pc = "sq_listdir"
    /\ UNCHANGED <<parser, filesize, offset, pc, pos, unpackedsize, result, outdir, tmpdir, cwd, rewound>>
    /\ IF tmpdir[cwd].exists
       THEN loc' = [loc EXCEPT ![t].pc = "sq_move",
                      ![t].listoffiles = SqNames(tmpdir[cwd].files)]
       ELSE SqThreadRaise(t, "FileNotFoundError")

\* lines 1574-1575 in thread t: shutil.move of one name of the list, which
\* is a path relative to the working directory
unpackSquashfs_thread_move(t) ==
    /\ loc[t].pc = "sq_move"
    /\ loc[t].listoffiles # {}
    /\ UNCHANGED <<parser, filesize, offset, pc, pos, unpackedsize, result, cwd, rewound>>
    /\ \E l \in loc[t].listoffiles :
         IF l \notin SqNames(tmpdir[cwd].files)
         THEN SqThreadRaise(t, "FileNotFoundError") /\ UNCHANGED <<outdir, tmpdir>>
         ELSE IF l \in SqNames(outdir[t])
         THEN SqThreadRaise(t, "shutil.Error") /\ UNCHANGED <<outdir, tmpdir>>
         ELSE LET f == CHOOSE x \in tmpdir[cwd].files : x[1] = l
              IN  /\ tmpdir' = [tmpdir EXCEPT ![cwd].files = @ \ {f}]
                  /\ outdir' = [outdir EXCEPT ![t] = @ \cup {f}]
                  /\ loc' = [loc EXCEPT ![t].listoffiles = @ \ {l}]

\* line 1578 in thread t: shutil.rmtree of the temporary directory
unpackSquashfs_thread_rmtree(t) ==
    /\ loc[t].pc = "sq_move"
    /\ loc[t].listoffiles = {}
    /\ UNCHANGED <<parser, filesize, offset, pc, pos, unpackedsize, result, outdir, cwd, rewound>>
    /\ tmpdir' = [tmpdir EXCEPT ![t] = [exists |-> FALSE, files |-> {}]]
    /\ loc' = [loc EXCEPT ![t].pc = "sq_walk"]

\* lines 1581-1593 in thread t: the result lists what unpackdir holds
unpackSquashfs_thread_return(t) ==
    /\ loc[t].pc = "sq_walk"
    /\ UNCHANGED <<parser, filesize, offset, pc, pos, unpackedsize, result, outdir, tmpdir, cwd, rewound>>
    /\ loc' = [loc EXCEPT ![t].pc = "done",
                 ![t].result = Ret(TRUE, 0, ListDir(SqNames(outdir[t])), {},
                                   Err(0, "Not a valid Squashfs"))]

NextSquashfsPair ==
    \E t \in SqThreads :
        \/ unpackSquashfs_thread_run(t)
        \/ unpackSquashfs_thread_chdir(t)
        \/ unpackSquashfs_thread_listdir(t)
        \/ unpackSquashfs_thread_move(t)
        \/ unpackSquashfs_thread_rmtree(t)
        \/ unpackSquashfs_thread_return(t)

-----------------------------------------------------------------------------
(* The specifications. *)

InitCall(p, span, locals) ==
    /\ parser = p
    /\ offset \in 0 .. MaxOffset
    /\ filesize = offset + span
    /\ pc = "start"
    /\ pos = 0
    /\ unpackedsize = 0
    /\ loc = locals
    /\ result = NoResult
    /\ outdir = {}
    /\ tmpdir = {}
    /\ cwd = "start"
    /\ rewound = FALSE

InitRIFF == \E p \in RiffParsers, span \in RiffSpans : InitCall(p, span, RiffLoc)

SpecRIFF == InitRIFF /\ [][NextRIFF]_vars

InitPNG == \E span \in PngSpans : InitCall("PNG", span, PngLoc)

SpecPNG == InitPNG /\ [][NextPNG]_vars

InitGzip == \E span \in GzSpans : InitCall("Gzip", span, GzLoc)

SpecGzip == InitGzip /\ [][NextGzip]_vars

InitBMP == \E span \in BmpSpans : InitCall("BMP", span, BmpLoc)

SpecBMP == InitBMP /\ [][NextBMP]_vars

InitLZMA == \E p \in {"LZMA", "XZ"}, span \in LzSpans, l \in LzLocs : InitCall(p, span, l)

SpecLZMA == InitLZMA /\ [][NextLZMA]_vars

InitTimeZone == \E span \in TzSpans : InitCall("TimeZone", span, TzLoc)

SpecTimeZone == InitTimeZone /\ [][NextTimeZone]_vars

InitTar == \E span \in 0 .. MaxTarSpan : InitCall("Tar", span, TarLoc)

SpecTar == InitTar /\ [][NextTar]_vars

InitAr == \E span \in Spans(8, MaxArSpan) : InitCall("Ar", span, ArLoc)

SpecAr == InitAr /\ [][NextAr]_vars

InitSquashfs == \E span \in SqSpans : InitCall("Squashfs", span, SqLoc)

SpecSquashfs == InitSquashfs /\ [][NextSquashfs]_vars

\* one call of any of the twelve parsers
Init ==
    \/ InitRIFF \/ InitPNG \/ InitGzip \/ InitBMP \/ InitLZMA
    \/ InitTimeZone \/ InitTar \/ InitAr \/ InitSquashfs

Next ==
    \/ NextRIFF \/ NextPNG \/ NextGzip \/ NextBMP \/ NextLZMA
    \/ NextTimeZone \/ NextTar \/ NextAr \/ NextSquashfs

Spec == Init /\ [][Next]_vars

\* two calls of unpackSquashfs in two threads
InitSquashfsPair ==
    /\ parser = "SquashfsPair" /\ filesize = 0 /\ offset = 0
    /\ pc = "threads" /\ pos = 0 /\ unpackedsize = 0
    /\ loc = [t \in SqThreads |-> SqThreadLoc]
    /\ result = NoResult
    /\ outdir = [t \in SqThreads |-> {}]
    /\ tmpdir = [t \in SqThreads |-> [exists |-> FALSE, files |-> {}]]
    /\ cwd = "start"
    /\ rewound = FALSE

SpecSquashfsPair == InitSquashfsPair /\ [][NextSquashfsPair]_vars

-----------------------------------------------------------------------------
(* The contract of the parsers. *)

\* the parsers that walk chunks of a RIFF file, and the others that never
\* write what they decoded
NoOutputParsers == RiffParsers \cup {"PNG", "BMP", "TimeZone"}

\* a call returned a tuple that says the data is the whole file
WholeFileResult ==
    /\ result.ret = "tuple" /\ result.ok
    /\ offset = 0 /\ result.size = filesize

\* C1: the size a parser returns is never more than the bytes of the file
\* from the offset on, whether it succeeded or failed.
C1_ConsumedWithinData ==
    result.ret = "tuple" => result.size <= filesize - offset

\* C2: when a parser returns failure, the output directory holds none of the
\* files the call made.
C2_FailureLeavesNothing ==
    (result.ret = "tuple" /\ ~result.ok) => outdir = {}

\* C3: no call of a parser ends by raising an exception.
C3_NoException == result.ret # "raised"

\* C4: in every returned result the error is empty exactly when ok is true.
C4_OkExcludesError ==
    result.ret = "tuple" => (result.ok <=> result.error = {})

\* C5 as stated: for WebP, WAV, ANI, PNG, gzip, BMP, LZMA, XZ and timezone
\* files, a successful result for the whole file lists no unpacked file.
C5_WholeFileNoCarve ==
    (parser \in NoOutputParsers \cup {"Gzip", "LZMA", "XZ"} /\ WholeFileResult)
        => result.files = <<>>

\* C5 amended: for WebP, WAV, ANI, PNG, BMP and timezone files, a successful
\* result for the whole file lists no unpacked file (gzip, LZMA and XZ list
\* the decompressed data).
C5_WholeFileNoCarveAmended ==
    (parser \in NoOutputParsers /\ WholeFileResult) => result.files = <<>>

\* the whole file was accepted as a RIFF file with at least one chunk
C5_Witness ==
    /\ parser \in RiffParsers /\ WholeFileResult
    /\ loc.nchunks > 0 /\ result.files = <<>>

\* C6: a returned result has labels only if it is a success at offset 0
\* that takes the whole file.
C6_LabelsOnlyForWholeFile ==
    (result.ret = "tuple" /\ result.labels # {})
        => (result.ok /\ offset = 0 /\ result.size = filesize)

\* gzip data that is a whole file was labelled
C6_Witness ==
    /\ parser = "Gzip" /\ result.ret = "tuple"
    /\ result.labels = {"gzip", "compressed"}

\* C7: when two calls of unpackSquashfs have run in two threads, each
\* returned a tuple and left in its unpackdir what it leaves when it runs
\* alone, and the working directory of the process is what it was.
C7_ThreadsIsolated ==
    (\A t \in SqThreads : loc[t].pc = "done") =>
        /\ cwd = "start"
        /\ \A t \in SqThreads :
              /\ loc[t].result.ret = "tuple"
              /\ loc[t].result.ok => outdir[t] = SqAlone(t)

\* C8 as stated: the cursor never goes back in unpackGzip, unpackLZMA with
\* unpackLZMAWrapper, unpackBMP, unpackSquashfs and the chunk walkers.
C8_CursorForward ==
    parser \in RiffParsers \cup {"PNG", "Gzip", "LZMA", "BMP", "Squashfs"} => ~rewound

\* C8 amended: the cursor never goes back in the chunk walkers, which are
\* unpackRIFF with its padding check and the chunk loop of unpackPNG, and in
\* unpackTimeZone.
C8_CursorForwardAmended ==
    rewound => /\ parser \notin RiffParsers \cup {"TimeZone"}
               /\ parser = "PNG" => pc = "done"

\* the padding byte of a RIFF chunk was read and was not zero
C8_Witness ==
    /\ parser \in RiffParsers /\ pc = "done" /\ ~rewound
    /\ \E e \in result.error : e.reason = "wrong value for padding byte length"

\* C9: RIFF data whose declared length and 8 are more than the bytes from
\* the offset on fails with 'wrong length' before its application header
\* or a chunk is looked at.
C9_WrongLengthFirst ==
    (/\ parser \in RiffParsers /\ pc = "done"
     /\ \A e \in result.error : e.reason \notin {"less than 12 bytes", "no valid RIFF header"}
     /\ loc.rifflength + 8 > filesize - offset)
        => /\ \E e \in result.error : e.reason = "wrong length"
           /\ ~loc.examined

\* C10: when unpackRIFF returns success, the size it returns is the declared
\* length and 8, is 12 and the sum of 8 and the padded size of every chunk,
\* and ends where the cursor is, and no chunk had a size field cut short.
C10_RiffConsumed ==
    (parser \in RiffParsers /\ loc.inner.ret = "tuple" /\ loc.inner.ok) =>
        /\ loc.inner.size = loc.rifflength + 8
        /\ loc.inner.size = 12 + loc.chunksum
        /\ offset + loc.inner.size = pos
        /\ ~loc.shortsize

\* unpackRIFF returned success after two chunks or more
C10_Witness ==
    /\ parser \in RiffParsers /\ loc.inner.ret = "tuple" /\ loc.inner.ok
    /\ loc.nchunks >= 2

\* C11: in unpackRIFF a chunk with an odd declared size is followed by exactly
\* one padding byte, read at the position just after the chunk data; when that
\* byte is not zero the parse fails with the reason "wrong value for padding
\* byte length", when it is zero the cursor stands one byte after it; a chunk
\* with an even size has no padding byte read or skipped, the cursor stands
\* just after its data. That reason is given for no other cause.
C11_PaddingByte ==
    parser \in RiffParsers =>
        /\ loc.chunksize >= 0 =>
              IF loc.chunksize % 2 # 0
              THEN /\ loc.paddingpos = loc.curpos + loc.chunksize
                   /\ loc.paddingpos < filesize
                   /\ loc.paddingbyte \in {"zero", "nonzero"}
                   /\ loc.paddingbyte = "zero" => pos = loc.curpos + loc.chunksize + 1
                   /\ loc.paddingbyte = "nonzero" =>
                         /\ pc \in {"riff_caller", "done"}
                         /\ ~loc.inner.ok
                         /\ \E e \in loc.inner.error : e.reason = "wrong value for padding byte length"
                         /\ pc = "done" =>
                               /\ ~result.ok
                               /\ \E e \in result.error : e.reason = "wrong value for padding byte length"
              ELSE /\ loc.paddingbyte = "none" /\ loc.paddingpos = -1
                   /\ pos = loc.curpos + loc.chunksize
        /\ (\E e \in loc.inner.error : e.reason = "wrong value for padding byte length")
              => loc.chunksize % 2 # 0 /\ loc.chunksize >= 0 /\ loc.paddingbyte = "nonzero"

\* a call that failed on the padding byte of an odd chunk that came after an
\* accepted chunk
C11_Witness ==
    /\ parser \in RiffParsers /\ pc = "done"
    /\ loc.chunksize = 1 /\ loc.paddingbyte = "nonzero" /\ loc.nchunks >= 1
    /\ ~result.ok

\* C12: the shape of a successful result of unpackWebP, unpackWAV and
\* unpackANI: when the offset is 0 and the unpacked size is the file size
\* nothing is carved and the labels are exactly riff plus the two labels of
\* the format (the RIFF file without chunks, length 4 and 12 bytes, included);
\* otherwise there are no labels and exactly one carved file,
\* unpacked-<format>, with the labels of the format plus unpacked.
C12_RiffResultShape ==
    (parser \in RiffParsers /\ pc = "done" /\ result.ok) =>
        LET tags == CASE parser = "WebP" -> {"webp", "graphics"}
                      [] parser = "WAV" -> {"wav", "audio"}
                      [] parser = "ANI" -> {"ani", "graphics"}
            name == CASE parser = "WebP" -> "unpacked-webp"
                      [] parser = "WAV" -> "unpacked-wav"
                      [] parser = "ANI" -> "unpacked-ani"
        IN  IF offset = 0 /\ result.size = filesize
            THEN result.files = <<>> /\ result.labels = {"riff"} \cup tags
            ELSE /\ result.labels = {}
                 /\ result.files = << <<name, tags \cup {"unpacked"}>> >>
                 /\ name \in outdir

\* unpackWAV on the 12 bytes RIFF, length 4, WAVE at offset 0
C12_Witness ==
    /\ parser = "WAV" /\ pc = "done" /\ result.ok
    /\ offset = 0 /\ filesize = 12 /\ loc.rifflength = 4 /\ loc.nchunks = 0
    /\ result.size = 12 /\ result.files = <<>>
    /\ result.labels = {"riff", "wav", "audio"}

\* C13: in unpackPNG no chunk is accepted unless all four bytes of its CRC
\* field could be read: a chunk whose CRC field is cut short by the end of
\* the file makes the call fail with the reason "Wrong CRC".
C13_TruncatedCrcRejected ==
    parser = "PNG" => loc.crcbytes = 4

\* C14: unpackPNG on a valid IHDR followed by chunks that are all valid and
\* complete, the last of them ending where the file ends, none of them IEND,
\* fails with the reason "No IEND found".
C14_NoIendFound ==
    (/\ parser = "PNG" /\ pc = "done"
     /\ loc.chunkend = filesize /\ loc.crcbytes = 4
     /\ "IEND" \notin loc.chunknames)
    => /\ ~result.ok
       /\ \E e \in result.error : e.reason = "No IEND found"

\* C15: unpackPNG succeeds only when an IDAT chunk came before the first IEND
\* chunk; the chunk loop stops at the first IEND, the unpacked size of a
\* success is the number of bytes from the offset up to and including the CRC
\* of that IEND, and an IEND that is reached without any IDAT before it makes
\* the call fail with the reason "No IDAT found".
C15_IdatBeforeIend ==
    (parser = "PNG" /\ pc = "done") =>
        /\ result.ok =>
              /\ loc.idatseen /\ loc.endoffilereached
              /\ "IDAT" \in loc.chunknames
              /\ loc.chunkend = loc.iendpos
              /\ result.size = loc.iendpos - offset
        /\ (loc.endoffilereached /\ ~loc.idatseen) =>
              /\ ~result.ok
              /\ \E e \in result.error : e.reason = "No IDAT found"

\* C16: unpackGzip does not reject a header for bit 2 (FEXTRA) of the flags:
\* when of the bits 2, 5, 6 and 7 only bit 2 is set, the call does not fail
\* at the flags byte, it takes the extra field as present and goes on with
\* the rest of the header.
C16_FextraAccepted ==
    (/\ parser = "Gzip"
     /\ "FEXTRA" \in loc.flagbits
     /\ "bit5" \notin loc.flagbits /\ "bit6or7" \notin loc.flagbits)
    => /\ loc.havefextra
       /\ ~(pc = "done" /\ unpackedsize = 3)
       /\ \A e \in result.error : e.reason # "unsupported multi-part gzip"

\* C17: unpackGzip succeeds only when at least 8 bytes of the file are left
\* at the position just after the DEFLATE data, whatever the offset is: the
\* CRC32 and ISIZE of a successful call are 8 bytes that were read in full.
C17_TrailerInFile ==
    (parser = "Gzip" /\ pc \in {"gz_rename", "done"} /\ (pc = "done" => result.ok)) =>
        /\ filesize - loc.bodyend >= 8
        /\ loc.trailer = 8

\* C18: unpackGzip succeeds only when the CRC32 stored in the trailer is
\* equal to the CRC-32 of the decoded data: a stream whose stored CRC32
\* differs is rejected.
C18_Crc32Checked ==
    (parser = "Gzip" /\ pc = "done" /\ result.ok) => loc.crcstored = "equal"

\* C19: the output of a successful unpackGzip is one file directly inside
\* unpackdir: named by the basename of the original name when the header
\* holds a non-empty one (directories and absolute paths in it are dropped),
\* else by the name of the input without .gz, else unpacked-from-gz.
C19_OutputInsideUnpackdir ==
    (parser = "Gzip" /\ pc = "done" /\ result.ok) =>
        /\ Len(result.files) = 1
        /\ result.files[1][1] \in outdir
        /\ IF loc.havefname /\ loc.namelen # 0
           THEN result.files[1][1] = "origname"
           ELSE result.files[1][1] \in {GzOutName(TRUE), GzOutName(FALSE)}

C21_LzmaSizeCheck ==
    (parser \in {"LZMA", "XZ"} /\ pc = "done" /\ loc.sizematch # "unchecked") =>
        IF ~loc.wrote
        THEN /\ ~result.ok
             /\ loc.outfilename \notin outdir
        ELSE IF parser = "LZMA" /\ loc.lzmaunpackedsize = "known"
        THEN /\ result.ok <=> loc.sizematch = "same"
             /\ loc.sizematch = "differs" =>
                  /\ loc.outfilename \notin outdir
                  /\ result.files = <<>>
                  /\ \E e \in result.error :
                       e.reason = "length of unpacked data does not correspond with header"
        ELSE result.ok /\ result.files[1][1] \in outdir

\* an LZMA file with a declared size that the output does not have
C21_Witness ==
    /\ parser = "LZMA" /\ pc = "done" /\ loc.wrote
    /\ loc.lzmaunpackedsize = "known" /\ loc.sizematch = "differs"
    /\ ~result.ok /\ outdir = {}

\* C22: in both data blocks of unpackTimeZone every index of a transition
\* time that is accepted is strictly less than the number of local time
\* types; an index equal to or greater than it makes the call fail.
C22_IndexBelowTypecnt ==
    parser = "TimeZone" => loc.maxindex < 0

\* C23: in unpackTimeZone a byte of the POSIX TZ string that is not printable
\* or is whitespace makes the call return a failure with a reason about the
\* POSIX TZ string and nothing carved, and a printable byte that is not
\* whitespace is accepted.
C23_PosixTzCharacters ==
    (parser = "TimeZone" /\ loc.tzchar # "none") =>
        IF loc.tzchar \in {"space", "control"}
        THEN /\ pc = "done" /\ result.ret = "tuple" /\ ~result.ok
             /\ result.files = <<>> /\ outdir = {}
             /\ \E e \in result.error :
                  e.reason = "invalid character in POSIX TZ environment style string"
        ELSE ~(pc = "done" /\ ~result.ok)

\* C24: when an iteration of unpackTar fails after an entry was extracted,
\* the call returns a success, the entries extracted before are the carved
\* files, and the unpacked size is the position (relative to the offset) at
\* which the failing iteration began, plus blocks of padding only.
C24_ConsumedUpToLastEntry ==
    (parser = "Tar" /\ pc = "done" /\ loc.tarerror /\ loc.tarunpacked) =>
        /\ result.ret = "tuple" /\ result.ok
        /\ result.files = loc.files
        /\ \E e \in loc.unpackingerror :
             LET oldunpackedsize == e.offset - offset
             IN  \E n \in 0 .. MaxTarPad :
                   /\ result.size = oldunpackedsize + n * TarBlock
                   /\ n > 0 => oldunpackedsize % TarBlock = 0

\* C25: the padding of unpackTar: when the unpacked size after the loop is a
\* multiple of the block size it grows by one block for each complete block
\* of zeros that follows, up to the first other block, a short read or the
\* end of the file; otherwise no padding is counted.  The final unpacked
\* size is never greater than the file size less the offset.
C25_PaddingAccounting ==
    (parser = "Tar" /\ pc = "done" /\ result.ok) =>
        /\ result.size = loc.tarend
                         + (IF loc.tarend % TarBlock = 0
                            THEN TarBlock * Min(loc.zeros,
                                                Max(0, filesize - offset - loc.tarend) \div TarBlock)
                            ELSE 0)
        /\ result.size <= filesize - offset

\* C26: when unpackSquashfs returns a result, a success or a failure, the
\* temporary file that was made for an offset other than 0 and the temporary
\* directory that unsquashfs ran in are gone; for the offset 0 no temporary
\* file is ever made.
C26_TemporariesRemoved ==
    parser = "Squashfs" =>
        /\ offset = 0 => ("temporaryfile" \notin tmpdir /\ ~loc.temporaryfile)
        /\ (offset # 0 /\ pc = "sq_run") => "temporaryfile" \in tmpdir
        /\ (pc = "done" /\ result.ret = "tuple") => tmpdir = {}

\* a call at an offset other than 0 that made both, ran unsquashfs with
\* success, and returned
C26_Witness ==
    /\ parser = "Squashfs" /\ pc = "done" /\ offset # 0
    /\ loc.temporaryfile /\ result.ok /\ loc.produced # {}
    /\ tmpdir = {}

\* C27: every result with ok = true has consumed > 0, for every parser,
\* also for unpackBMP (consumed is the declared size of the BMP) and for
\* unpackSquashfs (consumed is the declared size of the file system) when
\* the external tool accepts the data.
C27_OkConsumesBytes ==
    (pc = "done" /\ result.ret = "tuple" /\ result.ok) => result.size > 0

\* C28: the decoding loop of unpackGzip ends on every finite input: an
\* iteration that read no new byte from the file leaves the loop, so the
\* loop never goes on after feeding the decoder what the buffer held
\* before, and the bytes counted for the body are bytes that were read from
\* the file.
C28_GzipLoopFeedsNewBytes ==
    (parser = "Gzip" /\ pc \in {"gz_decode", "gz_trailer"}) =>
        /\ pc = "gz_decode" => ~loc.stale
        /\ offset + unpackedsize <= pos

\* C29: when unpackTar returns ok = true, every path in the list of carved
\* files exists in the output directory; the handler of a failing entry
\* removes the entry that was being extracted and no entry of an earlier
\* iteration, and it raises nothing when the failing entry is the first.
C29_CarvedPathsExist ==
    (parser = "Tar" /\ pc = "done") =>
        /\ (result.ret = "tuple" /\ result.ok) =>
               \A i \in 1 .. Len(result.files) : result.files[i][1] \in outdir
        /\ loc.removed \subseteq {loc.tounpack}
        /\ result # Raised("UnboundLocalError")

\* C30: unpackLZMAWrapper returns ok = true only if the decompressor
\* reported the end of the stream within the bytes it was fed: data that
\* ends before the compressed stream does, with decoded output, is not a
\* valid stream; and the consumed size of a success is the number of bytes
\* fed minus what the decompressor left unused at the end of the stream.
C30_LzmaEndOfStream ==
    (parser \in {"LZMA", "XZ"} /\ pc = "done" /\ result.ret = "tuple" /\ result.ok) =>
        /\ loc.eof
        /\ result.size = loc.fed - loc.unused

=============================================================================
